---- MODULE Spec2Model ----
(***************************************************************************)
(* A model of SQLitemm, the C++ wrapper over SQLite's handle-based C API.  *)
(*                                                                         *)
(* The specifications of this module:                                     *)
(*   SpecConn    Connection, Statement and Blob handle lifecycle           *)
(*   SpecTxn     the Transaction commit / rollback state machine           *)
(*   SpecResult  Result / ResultField reads under strict typing, step()    *)
(*   SpecBind    positional, named, optional and tuple parameter binding   *)
(*   SpecIter    the ResultIterator loop over a Result                     *)
(*   SpecField   a ResultField kept across step(), and moves of a Result   *)
(*   SpecTrack   prepare / close / finalize and the tracking list          *)
(*   SpecErr     result codes and the Error subtype thrown for them        *)
(*   SpecBackup  the Backup object: init, step, counters, close            *)
(*   SpecRound   integer values bound and read back through a column       *)
(*   SpecLifeResult  a Result against the lifetime of its Statement        *)
(*   SpecLifeTxn     a Transaction against the lifetime of its Connection  *)
(*   SpecLifeMove    statements across a move of their Connection          *)
(*   SpecOpen    opens that fail, and the closes that follow               *)
(*   SpecTxnMove a Transaction moved into another object                   *)
(*   SpecShare   two Results of one Statement                              *)
(*   SpecPostInc the post-increment of a ResultIterator                    *)
(* Each leaves the variables of the others at their initial values.        *)
(*                                                                         *)
(* The engine (SQLite) is modelled by what its documented C API does for   *)
(* the calls the wrapper makes; the wrapper is translated from             *)
(* src/src/sqlitemm.cpp and src/include/sqlitemm.hpp.                      *)
(***************************************************************************)
EXTENDS Integers, Sequences, FiniteSets, TLC

\* ------------------------------------------------------------------ bounds
\* Statement handles that prepare() may create in one run.
MaxStmts == 2
\* Blob handles that open_blob() may create in one run.
MaxBlobs == 1
\* Native connection handles that open() may create in one run.
MaxOpens == 2
\* Transaction objects constructed in one run, one alive at a time.
MaxTxns == 1
\* Successful BEGINs of one Transaction object (its constructor's included).
MaxBegins == 2
\* Rows inserted in one run.
MaxRows == 2
\* Columns of the query a Result reads.
MaxCols == 2
\* Rows of the query a Result reads.
MaxResultRows == 2
\* Rows of the query a ResultIterator walks.
MaxIterRows == 3
\* The field cursor is not driven beyond this.
MaxCounter == 3
\* Parameters of the statement that values are bound to.
MaxParams == 3
\* Largest arity of a tuple streamed into the statement.
MaxTuple == 3
\* Largest primary result code (the low byte) an engine call reports.
MaxPrimary == 28
\* Largest extended part (the bits above the low byte) of a result code.
MaxExtended == 4
\* Statement objects left with a null stmt_ptr at one time.
MaxHusks == 1
\* Pages the source database may grow to.
MaxPages == 3
\* Writes made to the source database in one run.
MaxWrites == 2
\* Executions of one statement (the first, and those the engine restarts).
MaxRuns == 3
\* Largest page count passed to Backup::step.
MaxStepPages == 2

VARIABLES
    \* ---- SpecConn: the wrapper's objects
    db,            \* Connection::db: 0 is nullptr, else a native connection handle
    stmt_ptrs,     \* Connection::stmt_ptrs: sequence of weak references to cells
    stmtObj,       \* per cell: the Statement object owning it: "unborn", "alive", "dead"
    cell,          \* per cell: *stmt_ptr, 0 is nullptr, else a native statement handle
    blobObj,       \* per blob: the Blob object: "unborn", "alive", "dead"
    \* ---- SpecConn: the engine's side
    nativeDb,      \* per connection handle: "unopened", "open", "closed"
    nativeStmt,    \* per statement handle: "none", "live", "finalized"
    stmtDb,        \* per statement handle: the connection handle it was prepared on
    nativeBlob,    \* per blob handle: "none", "open", "closed"
    blobDb,        \* per blob handle: the connection handle it was opened on
    \* ---- SpecConn: observation
    finalizeCalls, \* per statement handle: how often sqlite3_finalize received it
    staleCalls,    \* engine calls that received an already finalized statement handle
    \* ---- SpecTxn: the engine's side
    autocommit,    \* sqlite3_get_autocommit(db): TRUE when no transaction is open
    tbl,           \* the rows of the table as the connection sees them
    snapshot,      \* the rows at the BEGIN of the open transaction (ROLLBACK restores)
    nextRow,       \* the id the next inserted row gets
    \* ---- SpecTxn: the wrapper's objects
    txnObj,        \* per Transaction object: "unborn", "alive", "dead"
    committed,     \* per Transaction object: Transaction::committed
    \* ---- SpecTxn: observation
    owner,         \* whose BEGIN opened the open transaction: a Transaction, 0 the
                   \* user's own BEGIN, -1 when none is open
    begins,        \* per Transaction object: its successful BEGINs so far
    commitOk,      \* per Transaction object: commit() succeeded since its last BEGIN
    batch,         \* per Transaction object: rows inserted under its last BEGIN
    lastKept,      \* per Transaction object: the batch its last successful commit() kept
    kept,          \* per Transaction object: all rows its successful commit()s kept
    \* ---- SpecResult: the Result object
    rStrict,       \* Result::strict_typing
    counter,       \* Result::counter: the 0-based field cursor
    column_count,  \* Result::column_count: 0 until the first row
    \* ---- SpecResult: the engine's side
    curRow,        \* the current row of the statement, <<>> when there is none
    rowsLeft,      \* rows the statement has yet to produce
    \* ---- SpecBind: one Statement and its native statement
    parameter_index, \* Statement::parameter_index: the 1-based positional bind cursor
    bound,         \* per parameter position: the value the engine holds for it
    exec,          \* the native statement: "ready", "stepped", "failed" (last step)
    posBinds,      \* successful positional binds since prepare or the last reset
    \* ---- SpecIter: a ResultIterator over the Result
    itResult,      \* ResultIterator::result: "unborn", "result", "nullptr", "raised"
    rowNo,         \* how many rows the engine has produced: the current row's number
    rowsTotal,     \* the number of rows of the result set
    derefLog,      \* the row numbers the dereferences returned, in order
    \* ---- SpecField: a ResultField kept by the caller, and Result moves
    fld,           \* the kept ResultField (index, column_type, strict_typing) or NoField
    fldSnap,       \* the value the column had when the field was obtained
    strictChosen,  \* the strict_typing argument of execute_query
    \* ---- SpecBackup: a Backup object and the engine's backup handle
    bkObj,         \* the Backup object: "unborn", "alive"
    backup,        \* Backup::backup: 0 is nullptr, else the native backup handle
    srcPages,      \* the source database: the content of each page
    dstPages,      \* the destination database: the content of each page
    iNext,         \* the engine's backup handle: the next source page to copy
    nRemaining,    \* sqlite3_backup_remaining(): as of the most recent step
    nPagecount,    \* sqlite3_backup_pagecount(): as of the most recent step
    bkDone,        \* the engine's backup handle: the copy has completed
    writes,        \* writes made to the source database so far
    \* ---- SpecConn: moves of Statement objects
    husks,         \* alive Statement objects whose stmt_ptr is null (moved out of)
    movedFrom,     \* per cell: the Statement holding it was the source of a move
    \* ---- SpecLife: objects that hold a copy of a native handle
    resStmt,       \* Result::stmt of the one Result: 0 when there is none
    txDb,          \* Transaction::db of the one Transaction: 0 when there is none
    txCommitted,   \* Transaction::committed of that Transaction
    staleDbCalls,  \* engine calls that received an already closed connection handle
    otherObj,      \* a second Connection object, other: "unborn", "alive"
    otherDb,       \* other.db
    otherPtrs,     \* other.stmt_ptrs
    \* ---- shared
    \* ---- a moved Transaction
    txHusk,        \* the moved-from Transaction object: "unborn", "alive", "dead"
    \* ---- two Results of one Statement
    shRes,         \* per Result: "unborn", "alive"
    shRun,         \* the execution of the statement under way, counted from 1
    shPos,         \* rows the execution under way has produced; -1 once it is done
    shGot,         \* per Result: the <<execution, row>> pairs its step() delivered
    \* ---- a copy of a ResultIterator
    tmpResult,     \* ResultIterator::result of the copy: "unborn", "result"
    tmpRow,        \* the row the iterator was on when the copy was made
    halt,          \* "run", "assert" (an assert aborted the program), "fault" (crash)
    lastOp         \* the last operation and what it returned or raised

connVars == <<db, stmt_ptrs, stmtObj, cell, blobObj, nativeDb, nativeStmt, stmtDb,
              nativeBlob, blobDb, finalizeCalls, staleCalls>>

txnVars == <<autocommit, tbl, snapshot, nextRow, txnObj, committed, owner, begins,
             commitOk, batch, lastKept, kept>>

resVars == <<rStrict, counter, column_count, curRow, rowsLeft>>

bindVars == <<parameter_index, bound, exec, posBinds>>

iterVars == <<itResult, rowNo, rowsTotal, derefLog>>

fldVars == <<fld, fldSnap, strictChosen>>

moreVars == <<bindVars, iterVars, fldVars>>

bakVars == <<bkObj, backup, srcPages, dstPages, iNext, nRemaining, nPagecount,
             bkDone, writes>>

mvVars == <<husks, movedFrom>>

txHVars == <<txDb, txCommitted, staleDbCalls>>

otherVars == <<otherObj, otherDb, otherPtrs>>

lifeVars == <<resStmt, txHVars, otherVars>>

txmVars == <<txHusk>>

shVars == <<shRes, shRun, shPos, shGot>>

pincVars == <<tmpResult, tmpRow>>

lateVars == <<txmVars, shVars, pincVars>>

extVars == <<bakVars, mvVars, lifeVars, lateVars>>

vars == <<connVars, txnVars, resVars, moreVars, extVars, halt, lastOp>>

Cells == 1..MaxStmts
Blobs == 1..MaxBlobs
DbHandles == 1..MaxOpens

NoOp == [op |-> "none"]

\* ------------------------------------------------------------------ engine
\* sqlite3_close(): refuses with SQLITE_BUSY while the connection has
\* unfinalized prepared statements or open blob handles, and stays open.
EngineBusy(d, nStmt, nBlob) ==
    \/ \E h \in Cells : nStmt[h] = "live" /\ stmtDb[h] = d
    \/ \E b \in Blobs : nBlob[b] = "open" /\ blobDb[b] = d

\* Result codes an engine call may produce when handed a finalized statement
\* handle (undefined behaviour): it may report OK, report misuse, or crash.
StaleOutcomes == {"OK", "MISUSE", "fault"}

\* The handles of the live weak references of seq whose cell is not null, in
\* order: what the loop of Connection::close passes to sqlite3_finalize.
ForcedHandles(seq) ==
    SelectSeq(seq, LAMBDA c : stmtObj[c] = "alive" /\ cell[c] # 0)

Range(seq) == {seq[i] : i \in 1..Len(seq)}

\* ------------------------------------------------------------------ Connection
\* Connection::open(filename): assert(!db); a successful sqlite3_open.
ConnOpen ==
    /\ halt = "run"
    /\ UNCHANGED <<txnVars, resVars, moreVars, extVars>>
    /\ IF db # 0
       THEN /\ halt' = "assert"
            /\ lastOp' = [op |-> "open", ok |-> FALSE]
            /\ UNCHANGED connVars
       ELSE \E d \in DbHandles :
            /\ nativeDb[d] = "unopened"
            /\ \A e \in DbHandles : e < d => nativeDb[e] # "unopened"
            /\ nativeDb' = [nativeDb EXCEPT ![d] = "open"]
            /\ db' = d
            /\ lastOp' = [op |-> "open", ok |-> TRUE]
            /\ UNCHANGED <<stmt_ptrs, stmtObj, cell, blobObj, nativeStmt, stmtDb,
                           nativeBlob, blobDb, finalizeCalls, staleCalls, halt>>

\* clean_stmt_ptrs that erases nothing.
clean_stmt_ptrs_KeepAll(seq) == seq

\* Connection::clean_stmt_ptrs(): drop the expired weak references.
clean_stmt_ptrs(seq) == SelectSeq(seq, LAMBDA c : stmtObj[c] # "dead")

\* Connection::prepare(sql): assert(db); sqlite3_prepare_v2; on failure raise,
\* else make the shared cell, prune, push_back, return the Statement.
ConnPrepare ==
    /\ halt = "run"
    /\ UNCHANGED <<txnVars, resVars, moreVars, extVars>>
    /\ IF db = 0
       THEN /\ halt' = "assert"
            /\ lastOp' = [op |-> "prepare", ok |-> FALSE]
            /\ UNCHANGED connVars
       ELSE \/ /\ lastOp' = [op |-> "prepare", ok |-> FALSE]
               /\ UNCHANGED <<connVars, halt>>
            \/ \E c \in Cells :
               /\ stmtObj[c] = "unborn"
               /\ \A e \in Cells : e < c => stmtObj[e] # "unborn"
               /\ nativeStmt' = [nativeStmt EXCEPT ![c] = "live"]
               /\ stmtDb' = [stmtDb EXCEPT ![c] = db]
               /\ cell' = [cell EXCEPT ![c] = c]
               /\ stmtObj' = [stmtObj EXCEPT ![c] = "alive"]
               /\ stmt_ptrs' = Append(clean_stmt_ptrs(stmt_ptrs), c)
               /\ lastOp' = [op |-> "prepare", ok |-> TRUE, cell |-> c]
               /\ UNCHANGED <<db, blobObj, nativeDb, nativeBlob, blobDb,
                              finalizeCalls, staleCalls, halt>>

\* Connection::open_blob(): sqlite3_blob_open on db, returns a Blob.
ConnOpenBlob ==
    /\ halt = "run"
    /\ UNCHANGED <<txnVars, resVars, moreVars, extVars>>
    /\ db # 0
    /\ \E b \in Blobs :
       /\ blobObj[b] = "unborn"
       /\ \A e \in Blobs : e < b => blobObj[e] # "unborn"
       /\ blobObj' = [blobObj EXCEPT ![b] = "alive"]
       /\ nativeBlob' = [nativeBlob EXCEPT ![b] = "open"]
       /\ blobDb' = [blobDb EXCEPT ![b] = db]
       /\ lastOp' = [op |-> "open_blob", blob |-> b]
       /\ UNCHANGED <<db, stmt_ptrs, stmtObj, cell, nativeDb, nativeStmt, stmtDb,
                      finalizeCalls, staleCalls, halt>>

\* Blob::~Blob() -> Blob::close(): sqlite3_blob_close(blob); blob = nullptr.
BlobDestroy(b) ==
    /\ halt = "run"
    /\ UNCHANGED <<txnVars, resVars, moreVars, extVars>>
    /\ blobObj[b] = "alive"
    /\ blobObj' = [blobObj EXCEPT ![b] = "dead"]
    /\ nativeBlob' = [nativeBlob EXCEPT ![b] = "closed"]
    /\ lastOp' = [op |-> "blob_close", blob |-> b]
    /\ UNCHANGED <<db, stmt_ptrs, stmtObj, cell, nativeDb, nativeStmt, stmtDb,
                   blobDb, finalizeCalls, staleCalls, halt>>

\* The statement handles Connection::close force-finalizes when the first
\* sqlite3_close reports busy.
CloseForced == Range(ForcedHandles(stmt_ptrs))

\* The cells after the force-finalize loop of Connection::close: the loop
\* calls sqlite3_finalize(*stmt_ptr) and leaves *stmt_ptr as it was.
CloseCells == cell

\* Connection::close() without its test of db.
CloseReturnsAtOnce_Never == FALSE

\* Connection::close(): if (!db) return.
CloseReturnsAtOnce == db = 0

\* Connection::close(): return if !db; sqlite3_close; when it is refused,
\* finalize every live tracked statement, clear the list, sqlite3_close
\* again (its result is dropped); db = nullptr.
ConnClose ==
    /\ halt = "run"
    /\ UNCHANGED <<txnVars, resVars, moreVars, extVars>>
    /\ IF CloseReturnsAtOnce
       THEN /\ lastOp' = [op |-> "close", had |-> 0, calls |-> 0, forced |-> {}]
            /\ UNCHANGED <<connVars, halt>>
       ELSE IF ~EngineBusy(db, nativeStmt, nativeBlob)
       THEN /\ nativeDb' = [nativeDb EXCEPT ![db] = "closed"]
            /\ db' = 0
            /\ lastOp' = [op |-> "close", had |-> db, calls |-> 1, forced |-> {}]
            /\ UNCHANGED <<stmt_ptrs, stmtObj, cell, blobObj, nativeStmt, stmtDb,
                           nativeBlob, blobDb, finalizeCalls, staleCalls, halt>>
       ELSE LET forced == CloseForced
                stale == {h \in forced : nativeStmt[h] = "finalized"}
                nStmt == [h \in Cells |->
                            IF h \in forced THEN "finalized" ELSE nativeStmt[h]]
            IN  /\ finalizeCalls' = [h \in Cells |->
                        finalizeCalls[h] + (IF h \in forced THEN 1 ELSE 0)]
                /\ staleCalls' = staleCalls \cup {<<"finalize", h>> : h \in stale}
                /\ nativeStmt' = nStmt
                /\ cell' = CloseCells
                /\ stmt_ptrs' = <<>>
                /\ nativeDb' = [nativeDb EXCEPT ![db] =
                        IF EngineBusy(db, nStmt, nativeBlob) THEN "open" ELSE "closed"]
                /\ db' = 0
                /\ lastOp' = [op |-> "close", had |-> db, calls |-> 2, forced |-> forced]
                /\ \/ halt' = halt
                   \/ stale # {} /\ halt' = "fault"
                /\ UNCHANGED <<stmtObj, blobObj, stmtDb, nativeBlob, blobDb>>

\* ------------------------------------------------------------------ Statement
\* Statement::finalize(): if (stmt_ptr && *stmt_ptr) { sqlite3_finalize;
\* *stmt_ptr = nullptr; return rc == OK } else return true.
\* Yields <<engine called, cell afterwards>>.
FinalizeCallsEngine(c) == cell[c] # 0

\* One call of Statement::finalize() on the Statement of cell c, by the user
\* (thenDead = FALSE) or by ~Statement (thenDead = TRUE).
DoFinalize(c, thenDead, name) ==
    /\ halt = "run"
    /\ UNCHANGED <<txnVars, resVars, moreVars, extVars>>
    /\ stmtObj[c] = "alive"
    /\ stmtObj' = [stmtObj EXCEPT ![c] = IF thenDead THEN "dead" ELSE "alive"]
    /\ IF FinalizeCallsEngine(c)
       THEN LET h == cell[c] IN
            /\ finalizeCalls' = [finalizeCalls EXCEPT ![h] = @ + 1]
            /\ cell' = [cell EXCEPT ![c] = 0]
            /\ IF nativeStmt[h] = "live"
               THEN /\ nativeStmt' = [nativeStmt EXCEPT ![h] = "finalized"]
                    /\ \E rc \in {"OK", "ERROR"} :
                         lastOp' = [op |-> name, cell |-> c, engine |-> TRUE,
                                    ret |-> (rc = "OK")]
                    /\ UNCHANGED <<staleCalls, halt>>
               ELSE /\ staleCalls' = staleCalls \cup {<<"finalize", h>>}
                    /\ \E rc \in StaleOutcomes :
                         /\ halt' = IF rc = "fault" THEN "fault" ELSE halt
                         /\ lastOp' = [op |-> name, cell |-> c, engine |-> TRUE,
                                       ret |-> (rc = "OK")]
                    /\ UNCHANGED nativeStmt
       ELSE /\ lastOp' = [op |-> name, cell |-> c, engine |-> FALSE, ret |-> TRUE]
            /\ UNCHANGED <<cell, nativeStmt, finalizeCalls, staleCalls, halt>>
    /\ UNCHANGED <<db, stmt_ptrs, blobObj, nativeDb, stmtDb, nativeBlob, blobDb>>

StmtFinalize(c) == DoFinalize(c, FALSE, "finalize")

\* Statement::~Statement(): finalize(), then the shared_ptr is released.
StmtDestroy(c) == DoFinalize(c, TRUE, "destroy")

\* Statement::execute(): assert(stmt_ptr && *stmt_ptr); sqlite3_step.
StmtExecute(c) ==
    /\ halt = "run"
    /\ UNCHANGED <<txnVars, resVars, moreVars, extVars>>
    /\ stmtObj[c] = "alive"
    /\ IF cell[c] = 0
       THEN /\ halt' = "assert"
            /\ lastOp' = [op |-> "execute", cell |-> c, engine |-> FALSE]
            /\ UNCHANGED connVars
       ELSE IF nativeStmt[cell[c]] = "live"
       THEN /\ lastOp' = [op |-> "execute", cell |-> c, engine |-> TRUE]
            /\ UNCHANGED <<connVars, halt>>
       ELSE /\ staleCalls' = staleCalls \cup {<<"step", cell[c]>>}
            /\ \E rc \in StaleOutcomes :
                 halt' = IF rc = "fault" THEN "fault" ELSE halt
            /\ lastOp' = [op |-> "execute", cell |-> c, engine |-> TRUE]
            /\ UNCHANGED <<db, stmt_ptrs, stmtObj, cell, blobObj, nativeDb, nativeStmt,
                           stmtDb, nativeBlob, blobDb, finalizeCalls>>

\* ------------------------------------------------------------------ Statement moves
\* Statement(Statement&& other): stmt_ptr(std::move(other.stmt_ptr)). The new
\* Statement holds the cell c, other is left with a null stmt_ptr.
StmtMoveConstruct(c) ==
    /\ halt = "run"
    /\ stmtObj[c] = "alive"
    /\ husks < MaxHusks
    /\ husks' = husks + 1
    /\ movedFrom' = [movedFrom EXCEPT ![c] = FALSE]
    /\ lastOp' = [op |-> "move_construct", cell |-> c]
    /\ UNCHANGED <<connVars, txnVars, resVars, moreVars, lateVars, bakVars, lifeVars, halt>>

\* Statement::operator=(Statement&& other): swap(stmt_ptr, other.stmt_ptr).
\* `to` is the cell this holds and `from` the cell other holds, 0 standing
\* for a null stmt_ptr: afterwards other, the moved-from Statement, holds `to`.
StmtMoveAssign(to, from) ==
    /\ halt = "run"
    /\ to # from
    /\ IF to = 0 THEN husks > 0 ELSE stmtObj[to] = "alive"
    /\ IF from = 0 THEN husks > 0 ELSE stmtObj[from] = "alive"
    /\ movedFrom' = [c \in Cells |-> IF c = to THEN TRUE
                                     ELSE IF c = from THEN FALSE
                                     ELSE movedFrom[c]]
    /\ lastOp' = [op |-> "move_assign", to |-> to, from |-> from]
    /\ UNCHANGED <<connVars, txnVars, resVars, moreVars, lateVars, bakVars, lifeVars, husks, halt>>

\* Statement::finalize() on a Statement whose stmt_ptr is null (by the user,
\* or by its destructor): the test `stmt_ptr && *stmt_ptr` fails, return true.
HuskFinalize(thenDead) ==
    /\ halt = "run"
    /\ husks > 0
    /\ husks' = IF thenDead THEN husks - 1 ELSE husks
    /\ lastOp' = [op |-> IF thenDead THEN "destroy" ELSE "finalize", cell |-> 0,
                  engine |-> FALSE, ret |-> TRUE]
    /\ UNCHANGED <<connVars, txnVars, resVars, moreVars, lateVars, bakVars, lifeVars, movedFrom, halt>>

\* No Statement has been moved.
InitMove ==
    /\ husks = 0
    /\ movedFrom = [c \in Cells |-> FALSE]

\* ------------------------------------------------------------------ SpecConn
\* After `Connection conn(":memory:")`: one open connection, nothing prepared.
InitConn ==
    /\ db = 1
    /\ stmt_ptrs = <<>>
    /\ stmtObj = [c \in Cells |-> "unborn"]
    /\ cell = [c \in Cells |-> 0]
    /\ blobObj = [b \in Blobs |-> "unborn"]
    /\ nativeDb = [d \in DbHandles |-> IF d = 1 THEN "open" ELSE "unopened"]
    /\ nativeStmt = [h \in Cells |-> "none"]
    /\ stmtDb = [h \in Cells |-> 0]
    /\ nativeBlob = [b \in Blobs |-> "none"]
    /\ blobDb = [b \in Blobs |-> 0]
    /\ finalizeCalls = [h \in Cells |-> 0]
    /\ staleCalls = {}

\* ------------------------------------------------------------------ Transaction
Txns == 1..MaxTxns
Rows == 1..MaxRows

\* sqlite3_exec(db, "BEGIN"): an error inside an open transaction, else OK.
ExecBeginOk == autocommit

\* sqlite3_exec(db, "COMMIT"): an error when no transaction is open; otherwise
\* it commits (OK) or, when a lock cannot be had, reports BUSY and leaves the
\* transaction open.
ExecCommitResults == IF autocommit THEN {"ERROR"} ELSE {"OK", "BUSY"}

\* Mutant: begin() that forgets to clear the flag.
BeginFlag_Kept(flag, ok) == flag

\* Mutant: begin() that clears the flag before it checks the result.
BeginFlag_Unchecked(flag, ok) == FALSE

\* Transaction::begin(), the flag: committed = false once BEGIN succeeded
\* (check_result_ok raises before the assignment otherwise).
BeginFlag(flag, ok) == IF ok THEN FALSE ELSE flag

\* Mutant: commit() that sets the flag before checking the result.
CommitFlag_Early(flag, rc) == TRUE

\* Transaction::commit(), the flag: committed = true once COMMIT succeeded
\* (check_result_ok raises before the assignment otherwise).
CommitFlag(flag, rc) == IF rc = "OK" THEN TRUE ELSE flag

\* Mutant: rollback() without the autocommit test.
RollbackIssues_Unguarded == TRUE

\* Transaction::rollback(): ROLLBACK is executed if (!sqlite3_get_autocommit(db)).
RollbackIssues == ~autocommit

\* Mutant: a destructor that never rolls back.
DtorCallsRollback_Never(t) == FALSE

\* Mutant: a destructor that rolls back whatever the flag says.
DtorCallsRollback_Always(t) == TRUE

\* Transaction::~Transaction(): rollback() is called if (!committed).
DtorCallsRollback(t) == ~committed[t]

\* The engine and observation variables after BEGIN succeeded for who (a
\* Transaction, or 0 for the user's own).
BeginEffect(who) ==
    /\ autocommit' = FALSE
    /\ snapshot' = tbl
    /\ owner' = who
    /\ UNCHANGED <<tbl, nextRow>>

\* sqlite3_exec(db, "ROLLBACK"): undoes the open transaction and discards its
\* journal; an error that changes nothing when none is open (rollback() drops
\* the result).
RollbackEffect ==
    IF autocommit
    THEN UNCHANGED <<autocommit, tbl, snapshot, nextRow, owner>>
    ELSE /\ autocommit' = TRUE
         /\ tbl' = snapshot
         /\ snapshot' = {}
         /\ owner' = -1
         /\ UNCHANGED nextRow

\* Connection::begin_transaction() -> Transaction::Transaction(db): begin();
\* when BEGIN fails the constructor raises and no object exists.
TxnConstruct(t) ==
    /\ halt = "run"
    /\ UNCHANGED <<connVars, resVars, moreVars, extVars, halt>>
    /\ txnObj[t] = "unborn"
    /\ \A u \in Txns : (u < t => txnObj[u] = "dead") /\ (u > t => txnObj[u] = "unborn")
    /\ IF ExecBeginOk
       THEN /\ BeginEffect(t)
            /\ txnObj' = [txnObj EXCEPT ![t] = "alive"]
            /\ committed' = [committed EXCEPT ![t] = BeginFlag(FALSE, TRUE)]
            /\ begins' = [begins EXCEPT ![t] = 1]
            /\ commitOk' = [commitOk EXCEPT ![t] = FALSE]
            /\ batch' = [batch EXCEPT ![t] = {}]
            /\ lastOp' = [op |-> "construct", t |-> t, ok |-> TRUE]
            /\ UNCHANGED <<lastKept, kept>>
       ELSE /\ lastOp' = [op |-> "construct", t |-> t, ok |-> FALSE]
            /\ UNCHANGED txnVars

\* Transaction::begin(): BEGIN; raise on failure; committed = false.
TxnBegin(t) ==
    /\ halt = "run"
    /\ UNCHANGED <<connVars, resVars, moreVars, extVars, halt>>
    /\ txnObj[t] = "alive"
    /\ begins[t] < MaxBegins
    /\ IF ExecBeginOk
       THEN /\ BeginEffect(t)
            /\ committed' = [committed EXCEPT ![t] = BeginFlag(@, TRUE)]
            /\ begins' = [begins EXCEPT ![t] = @ + 1]
            /\ commitOk' = [commitOk EXCEPT ![t] = FALSE]
            /\ batch' = [batch EXCEPT ![t] = {}]
            /\ lastOp' = [op |-> "begin", t |-> t, ok |-> TRUE, flagBefore |-> committed[t]]
            /\ UNCHANGED <<txnObj, lastKept, kept>>
       ELSE /\ committed' = [committed EXCEPT ![t] = BeginFlag(@, FALSE)]
            /\ lastOp' = [op |-> "begin", t |-> t, ok |-> FALSE, flagBefore |-> committed[t]]
            /\ UNCHANGED <<autocommit, tbl, snapshot, nextRow, txnObj, owner, begins,
                           commitOk, batch, lastKept, kept>>

\* Transaction::commit(): COMMIT; raise on failure; committed = true.
TxnCommit(t) ==
    /\ halt = "run"
    /\ UNCHANGED <<connVars, resVars, moreVars, extVars, halt>>
    /\ txnObj[t] = "alive"
    /\ \E rc \in ExecCommitResults :
       /\ committed' = [committed EXCEPT ![t] = CommitFlag(@, rc)]
       /\ lastOp' = [op |-> "commit", t |-> t, ok |-> (rc = "OK"), raised |-> (rc # "OK"),
                     flagBefore |-> committed[t]]
       /\ IF rc = "OK"
          THEN LET mine == IF owner = t THEN batch[t] ELSE {} IN
               /\ autocommit' = TRUE
               /\ snapshot' = {}
               /\ owner' = -1
               /\ commitOk' = [commitOk EXCEPT ![t] = TRUE]
               /\ lastKept' = [lastKept EXCEPT ![t] = mine]
               /\ kept' = [kept EXCEPT ![t] = @ \cup mine]
               /\ UNCHANGED <<tbl, nextRow, txnObj, begins, batch>>
          ELSE UNCHANGED <<autocommit, tbl, snapshot, nextRow, txnObj, owner, begins,
                           commitOk, batch, lastKept, kept>>

\* Transaction::rollback(), called by the user.
TxnRollback(t) ==
    /\ halt = "run"
    /\ UNCHANGED <<connVars, resVars, moreVars, extVars, halt>>
    /\ txnObj[t] = "alive"
    /\ lastOp' = [op |-> "rollback", t |-> t, issued |-> RollbackIssues,
                  autoBefore |-> autocommit]
    /\ IF RollbackIssues
       THEN /\ RollbackEffect
            /\ UNCHANGED <<txnObj, committed, begins, commitOk, batch, lastKept, kept>>
       ELSE UNCHANGED txnVars

\* Transaction::~Transaction(): if (!committed) rollback().
TxnDestroy(t) ==
    /\ halt = "run"
    /\ UNCHANGED <<connVars, resVars, moreVars, extVars, halt>>
    /\ txnObj[t] = "alive"
    /\ txnObj' = [txnObj EXCEPT ![t] = "dead"]
    /\ LET called == DtorCallsRollback(t)
           issued == called /\ RollbackIssues
       IN  /\ lastOp' = [op |-> "dtor", t |-> t, called |-> called, issued |-> issued,
                         autoBefore |-> autocommit, flag |-> committed[t],
                         afterFailedCommit |->
                            (lastOp.op = "commit" /\ lastOp.t = t /\ ~lastOp.ok)]
           /\ IF issued
              THEN RollbackEffect
              ELSE UNCHANGED <<autocommit, tbl, snapshot, nextRow, owner>>
    /\ UNCHANGED <<committed, begins, commitOk, batch, lastKept, kept>>

\* Statement::execute() of an INSERT: the row is in the table at once; inside
\* an open transaction a later ROLLBACK removes it.
TxnInsert ==
    /\ halt = "run"
    /\ UNCHANGED <<connVars, resVars, moreVars, extVars, halt>>
    /\ nextRow <= MaxRows
    /\ tbl' = tbl \cup {nextRow}
    /\ nextRow' = nextRow + 1
    /\ batch' = [t \in Txns |-> IF owner = t THEN batch[t] \cup {nextRow} ELSE batch[t]]
    /\ lastOp' = [op |-> "insert", row |-> nextRow]
    /\ UNCHANGED <<autocommit, snapshot, txnObj, committed, owner, begins, commitOk,
                   lastKept, kept>>

\* Connection::execute("BEGIN"): the user begins a transaction without a
\* Transaction object; check_result_ok raises when the engine refuses.
ConnExecuteBegin ==
    /\ halt = "run"
    /\ UNCHANGED <<connVars, resVars, moreVars, extVars, halt>>
    /\ IF ExecBeginOk
       THEN /\ BeginEffect(0)
            /\ lastOp' = [op |-> "execute_begin", ok |-> TRUE]
            /\ UNCHANGED <<txnObj, committed, begins, commitOk, batch, lastKept, kept>>
       ELSE /\ lastOp' = [op |-> "execute_begin", ok |-> FALSE]
            /\ UNCHANGED txnVars

\* An open connection in autocommit mode with an empty table.
InitTxn ==
    /\ autocommit = TRUE
    /\ tbl = {}
    /\ snapshot = {}
    /\ nextRow = 1
    /\ txnObj = [t \in Txns |-> "unborn"]
    /\ committed = [t \in Txns |-> FALSE]
    /\ owner = -1
    /\ begins = [t \in Txns |-> 0]
    /\ commitOk = [t \in Txns |-> FALSE]
    /\ batch = [t \in Txns |-> {}]
    /\ lastKept = [t \in Txns |-> {}]
    /\ kept = [t \in Txns |-> {}]

NextTxn ==
    \/ \E t \in Txns : TxnConstruct(t)
    \/ \E t \in Txns : TxnBegin(t)
    \/ \E t \in Txns : TxnCommit(t)
    \/ \E t \in Txns : TxnRollback(t)
    \/ \E t \in Txns : TxnDestroy(t)
    \/ TxnInsert
    \/ ConnExecuteBegin

\* ------------------------------------------------------------------ values
\* A column value as the engine holds it: a dynamic type and a payload.
\* INTEGER holds an integer, FLOAT a number of tenths (2.5 is 25),
\* TEXT and BLOB a sequence of characters.
NullValue == [type |-> "NULL", val |-> 0]

Values ==
    { NullValue,
      [type |-> "INTEGER", val |-> 300],
      [type |-> "FLOAT", val |-> 25],
      [type |-> "TEXT", val |-> <<"1", "2">>],
      [type |-> "BLOB", val |-> <<"3">>] }

Digits == <<"0", "1", "2", "3", "4", "5", "6", "7", "8", "9">>

IsDigit(ch) == \E i \in 1..10 : Digits[i] = ch

DigitVal(ch) == (CHOOSE i \in 1..10 : Digits[i] = ch) - 1

\* The value of the longest prefix of digits of txt[from..], after acc.
RECURSIVE DigitPrefix(_, _, _)
DigitPrefix(txt, from, acc) ==
    IF from > Len(txt) \/ ~IsDigit(txt[from])
    THEN acc
    ELSE DigitPrefix(txt, from + 1, acc * 10 + DigitVal(txt[from]))

\* The index after the longest prefix of digits of txt[from..].
RECURSIVE DigitEnd(_, _)
DigitEnd(txt, from) ==
    IF from > Len(txt) \/ ~IsDigit(txt[from]) THEN from ELSE DigitEnd(txt, from + 1)

\* Text to integer as the engine coerces it: the longest prefix that reads as
\* an integer, 0 when there is none.
TextToInt(txt) ==
    IF Len(txt) > 0 /\ txt[1] = "-"
    THEN 0 - DigitPrefix(txt, 2, 0)
    ELSE DigitPrefix(txt, 1, 0)

\* Text to tenths as the engine coerces text to a real: sign, digits, and the
\* first digit after a decimal point.
TextToTenths(txt) ==
    LET neg == Len(txt) > 0 /\ txt[1] = "-"
        start == IF neg THEN 2 ELSE 1
        whole == DigitPrefix(txt, start, 0)
        dot == DigitEnd(txt, start)
        frac == IF dot + 1 <= Len(txt) /\ txt[dot] = "." /\ IsDigit(txt[dot + 1])
                THEN DigitVal(txt[dot + 1]) ELSE 0
        mag == whole * 10 + frac
    IN  IF neg THEN 0 - mag ELSE mag

\* The decimal digits of n >= 0.
RECURSIVE NatToText(_)
NatToText(n) ==
    IF n < 10 THEN <<Digits[n + 1]>> ELSE Append(NatToText(n \div 10), Digits[(n % 10) + 1])

IntToText(n) == IF n < 0 THEN <<"-">> \o NatToText(0 - n) ELSE NatToText(n)

\* Tenths rendered as text: 25 is "2.5".
TenthsToText(t) ==
    LET mag == IF t < 0 THEN 0 - t ELSE t
        body == NatToText(mag \div 10) \o <<".", Digits[(mag % 10) + 1]>>
    IN  IF t < 0 THEN <<"-">> \o body ELSE body

\* Tenths truncated toward zero to an integer.
TenthsToInt(t) == IF t < 0 THEN 0 - ((0 - t) \div 10) ELSE t \div 10

\* static_cast<signed char>(int): the low 8 bits, two's complement.
ToInt8(n) == ((n + 128) % 256) - 128

\* sqlite3_column_int64(): the value coerced to a 64-bit integer.
sqlite3_column_int64(v) ==
    CASE v.type = "NULL" -> 0
      [] v.type = "INTEGER" -> v.val
      [] v.type = "FLOAT" -> TenthsToInt(v.val)
      [] OTHER -> TextToInt(v.val)

\* sqlite3_column_int(): the low 32 bits of the 64-bit coercion. Every
\* integer the coercions of Values produce lies within 32 bits, where taking
\* the low 32 bits changes nothing.
sqlite3_column_int(v) == sqlite3_column_int64(v)

\* sqlite3_column_double(): the value coerced to a real (in tenths).
sqlite3_column_double(v) ==
    CASE v.type = "NULL" -> 0
      [] v.type = "INTEGER" -> v.val * 10
      [] v.type = "FLOAT" -> v.val
      [] OTHER -> TextToTenths(v.val)

\* sqlite3_column_text() with sqlite3_column_bytes(): the value coerced to
\* text; NULL gives a null pointer and 0 bytes, which makes an empty string.
sqlite3_column_text(v) ==
    CASE v.type = "NULL" -> <<>>
      [] v.type = "INTEGER" -> IntToText(v.val)
      [] v.type = "FLOAT" -> TenthsToText(v.val)
      [] OTHER -> v.val

\* ------------------------------------------------------------------ ResultField
\* The host types a field is converted to, and the storage class each
\* conversion operator names in its strict_type_check call.
HostTypes == {"signed char", "int", "double", "string"}

ExpectedType(target) ==
    CASE target = "int" -> "INTEGER"
      [] target = "signed char" -> "INTEGER"
      [] target = "double" -> "FLOAT"
      [] target = "string" -> "TEXT"

\* Mutant: strict_type_check without the NULL branch.
strict_type_check_NoNull(strict, column_type, expected) ==
    IF strict /\ column_type # expected THEN "TypeError" ELSE "ok"

\* strict_type_check(): raises when strict and the types differ, a
\* NullTypeError for a NULL column and a TypeError otherwise.
strict_type_check(strict, column_type, expected) ==
    IF strict /\ column_type # expected
    THEN IF column_type = "NULL" THEN "NullTypeError" ELSE "TypeError"
    ELSE "ok"

\* The engine call each conversion operator returns the value of.
ColumnAs(target, v) ==
    CASE target = "int" -> sqlite3_column_int(v)
      [] target = "signed char" -> ToInt8(sqlite3_column_int(v))
      [] target = "double" -> sqlite3_column_double(v)
      [] target = "string" -> sqlite3_column_text(v)

\* ResultField::operator T() of a field whose cached column_type is tag while
\* the engine holds v in its column: strict_type_check on the cached type,
\* then the engine's value.
ConvertTagged(target, tag, v, strict) ==
    LET chk == strict_type_check(strict, tag, ExpectedType(target))
    IN  IF chk # "ok"
        THEN [outcome |-> chk, value |-> "none"]
        ELSE [outcome |-> "value", value |-> ColumnAs(target, v)]

\* ResultField::operator T() of a field converted in the expression that made
\* it: the cached type is the type of the value.
ConvertField(target, v, strict) == ConvertTagged(target, v.type, v, strict)

\* Mutant: to_optional without the NULL test.
to_optional_NoNullTest(target, v, strict) == ConvertField(target, v, strict)

\* ResultField::to_optional<T>(): empty for a NULL column, else emplace(*this),
\* which is the conversion to T.
to_optional(target, v, strict) ==
    IF v.type # "NULL"
    THEN ConvertField(target, v, strict)
    ELSE [outcome |-> "empty", value |-> "none"]

\* ------------------------------------------------------------------ Result
Cols == 1..MaxCols

\* What sqlite3_column_*(stmt, i) reads: column i of the current row. With no
\* current row or i out of range the engine's result is undefined: any value.
ColumnValues(i) ==
    IF curRow # <<>> /\ i >= 0 /\ i < Len(curRow) THEN {curRow[i + 1]} ELSE Values

\* sqlite3_step(stmt): SQLITE_ROW while the statement has rows to produce,
\* SQLITE_DONE after the last, or an error (a busy database) in between.
StepResults == IF rowsLeft > 0 THEN {"ROW", "BUSY"} ELSE {"DONE"}

\* Mutant: a step() that reports completion as an error.
StepReturn_DoneRaises(rc) == IF rc = "ROW" THEN "true" ELSE "raised"

\* Result::step(), the switch: true for SQLITE_ROW, false for SQLITE_DONE,
\* throw_error for anything else.
StepReturn(rc) ==
    CASE rc = "ROW" -> "true"
      [] rc = "DONE" -> "false"
      [] OTHER -> "raised"

\* Mutant: a step() that resets the cursor whatever the engine reports.
StepCounter_AlwaysReset(rc, c) == 0

\* Result::step(), the cursor: counter = 0 in the SQLITE_ROW case only.
StepCounter(rc, c) == IF rc = "ROW" THEN 0 ELSE c

\* Result::step(), the column count: sqlite3_column_count(stmt) is cached in
\* the SQLITE_ROW case while column_count is 0.
StepColumnCount(rc, cc) == IF rc = "ROW" /\ cc = 0 THEN MaxCols ELSE cc

\* Result::step() on the Result and its statement.
StepCore ==
    /\ halt = "run"
    /\ UNCHANGED <<connVars, txnVars, extVars, halt, rStrict>>
    /\ \E rc \in StepResults :
         /\ counter' = StepCounter(rc, counter)
         /\ column_count' = StepColumnCount(rc, column_count)
         /\ rowsLeft' = IF rc = "ROW" THEN rowsLeft - 1 ELSE 0
         /\ \E r \in (IF rc = "ROW" THEN [Cols -> Values] ELSE {<<>>}) : curRow' = r
         /\ lastOp' = [op |-> "step", rc |-> rc, ret |-> StepReturn(rc),
                       counterBefore |-> counter]

\* result.step(), called by the user.
ResultStep == StepCore /\ UNCHANGED moreVars

\* The record of a read, for the claims: how it was made, what it read and
\* what came of it.
ReadOp(op, target, opt, i, v, res, engineRead) ==
    [op |-> op, target |-> target, opt |-> opt, col |-> i, cellv |-> v,
     strict |-> rStrict, outcome |-> res.outcome, value |-> res.value,
     engineRead |-> engineRead, counterBefore |-> counter,
     colsBefore |-> column_count]

\* T x = result[i], or result[i].to_optional<T>(): Result::operator[] makes the
\* ResultField (reading the column's type), then the conversion.
FieldRead(i, target, opt) ==
    /\ halt = "run"
    /\ UNCHANGED <<connVars, txnVars, extVars, moreVars, halt, resVars>>
    /\ curRow # <<>>
    /\ \E v \in ColumnValues(i) :
         LET res == IF opt THEN to_optional(target, v, rStrict)
                    ELSE ConvertField(target, v, rStrict)
         IN  lastOp' = ReadOp("field", target, opt, i, v, res, TRUE)

\* Result::operator>>(T&): assert(counter < column_count); the field at
\* counter is made and counter incremented, then the field is converted.
\* Yields the outcomes <<value read, result, engine read, counter, halt>>.
StreamPlain(target) ==
    IF ~(counter < column_count)
    THEN {<<NullValue, [outcome |-> "assert", value |-> "none"], FALSE, counter, "assert">>}
    ELSE {<<v, ConvertField(target, v, rStrict), TRUE, counter + 1, "run">> :
            v \in ColumnValues(counter)}

\* Result::operator>>(std::optional<T>&): if sqlite3_column_type(stmt, counter)
\* is not NULL, operator>>(T&) as above; else reset the optional and ++counter.
StreamOptional(target) ==
    UNION { IF t.type # "NULL"
            THEN IF ~(counter < column_count)
                 THEN {<<t, [outcome |-> "assert", value |-> "none"], TRUE, counter,
                         "assert">>}
                 ELSE {<<t, ConvertField(target, t, rStrict), TRUE, counter + 1, "run">>}
            ELSE {<<t, [outcome |-> "empty", value |-> "none"], TRUE, counter + 1, "run">>}
          : t \in ColumnValues(counter) }

\* Result::as_text(f) / as_blob(f): assert(counter < column_count); the field
\* at counter is made and counter incremented; the engine's text or bytes are
\* handed to f with no type check.
StreamAsText ==
    IF ~(counter < column_count)
    THEN {<<NullValue, [outcome |-> "assert", value |-> "none"], FALSE, counter, "assert">>}
    ELSE {<<v, [outcome |-> "value", value |-> sqlite3_column_text(v)], TRUE,
            counter + 1, "run">> : v \in ColumnValues(counter)}

\* One streaming read of the Result.
StreamRead(kind, target, opt) ==
    /\ halt = "run"
    /\ UNCHANGED <<connVars, txnVars, extVars, moreVars, rStrict, column_count, curRow, rowsLeft>>
    /\ counter < MaxCounter
    /\ \E o \in (CASE kind = "as_text" -> StreamAsText
                   [] opt -> StreamOptional(target)
                   [] OTHER -> StreamPlain(target)) :
         /\ counter' = o[4]
         /\ halt' = o[5]
         /\ lastOp' = ReadOp(kind, target, opt, counter, o[1], o[2], o[3])

\* After `auto result = statement.execute_query(strict_typing)`: no row yet.
InitResult ==
    /\ rStrict = FALSE
    /\ counter = 0
    /\ column_count = 0
    /\ curRow = <<>>
    /\ rowsLeft = 0

\* Statement::execute_query(strict_typing): Result(*stmt_ptr, strict_typing)
\* on a statement whose query has up to maxRows rows.
QueryCore(maxRows) ==
    /\ halt = "run"
    /\ lastOp.op = "none"
    /\ UNCHANGED <<connVars, txnVars, extVars, halt, counter, column_count, curRow>>
    /\ \E s \in BOOLEAN, n \in 0..maxRows :
         /\ rStrict' = s
         /\ rowsLeft' = n
         /\ lastOp' = [op |-> "execute_query", strict |-> s, rows |-> n]

\* auto result = statement.execute_query(strict_typing).
ExecuteQuery == QueryCore(MaxResultRows) /\ UNCHANGED moreVars

NextResult ==
    \/ ExecuteQuery
    \/ ResultStep
    \/ \E i \in 0..(MaxCols - 1), target \in HostTypes, opt \in BOOLEAN :
         FieldRead(i, target, opt)
    \/ \E target \in HostTypes, opt \in BOOLEAN : StreamRead(">>", target, opt)
    \/ StreamRead("as_text", "string", FALSE)

\* ------------------------------------------------------------------ ResultIterator
\* auto result = statement.execute_query() on a query of up to MaxIterRows rows.
IterExecuteQuery ==
    /\ QueryCore(MaxIterRows)
    /\ rowsTotal' = rowsLeft'
    /\ UNCHANGED <<bindVars, fldVars, itResult, rowNo, derefLog>>

\* Mutant: an iterator that keeps its Result when step() returned false.
IterAfterStep_Stuck(ret) == IF ret = "raised" THEN "raised" ELSE "result"

\* ResultIterator's constructor and operator++: if (!result->step()) result =
\* nullptr; an exception of step() leaves the loop.
IterAfterStep(ret) ==
    CASE ret = "true" -> "result"
      [] ret = "false" -> "nullptr"
      [] OTHER -> "raised"

\* result->step() as the iterator calls it.
IterStep ==
    /\ StepCore
    /\ itResult' = IterAfterStep(lastOp'.ret)
    /\ rowNo' = IF lastOp'.rc = "ROW" THEN rowNo + 1 ELSE rowNo
    /\ UNCHANGED <<bindVars, fldVars, rowsTotal, derefLog>>

\* auto it = result.begin<T>(): ResultIterator(Result&, retrieval_func).
IterBegin ==
    /\ itResult = "unborn"
    /\ lastOp.op = "execute_query"
    /\ IterStep

\* *it, while it != result.end<T>(): retrieval_function(*result) reads the
\* row the statement is at.
IterDeref ==
    /\ halt = "run"
    /\ itResult = "result"
    /\ lastOp.op = "step"
    /\ derefLog' = Append(derefLog, rowNo)
    /\ lastOp' = [op |-> "deref", row |-> rowNo]
    /\ UNCHANGED <<connVars, txnVars, extVars, resVars, bindVars, fldVars, halt,
                   itResult, rowNo, rowsTotal>>

\* ++it, after the dereference.
IterIncrement ==
    /\ itResult = "result"
    /\ lastOp.op = "deref"
    /\ IterStep

InitIter ==
    /\ itResult = "unborn"
    /\ rowNo = 0
    /\ rowsTotal = 0
    /\ derefLog = <<>>

NextIter ==
    \/ IterExecuteQuery
    \/ IterBegin
    \/ IterDeref
    \/ IterIncrement

\* ------------------------------------------------------------------ post-increment
\* ResultIterator::operator++(int): ResultIterator temp(*this); ++*this;
\* return temp. The copy holds the same Result*; the pre-increment steps that
\* Result (if (!result->step()) result = nullptr, in *this only). When step()
\* raises nothing is returned.
IterPostIncrement ==
    /\ halt = "run"
    /\ itResult = "result"
    /\ lastOp.op \in {"step", "deref", "post_increment", "temp_deref"}
    /\ \E rc \in StepResults :
         /\ counter' = StepCounter(rc, counter)
         /\ column_count' = StepColumnCount(rc, column_count)
         /\ rowsLeft' = IF rc = "ROW" THEN rowsLeft - 1 ELSE 0
         /\ \E r \in (IF rc = "ROW" THEN [Cols -> Values] ELSE {<<>>}) : curRow' = r
         /\ itResult' = IterAfterStep(StepReturn(rc))
         /\ rowNo' = IF rc = "ROW" THEN rowNo + 1 ELSE rowNo
         /\ tmpResult' = IF StepReturn(rc) = "raised" THEN "unborn" ELSE itResult
         /\ tmpRow' = IF StepReturn(rc) = "raised" THEN 0 ELSE rowNo
         /\ lastOp' = [op |-> "post_increment", rc |-> rc, ret |-> StepReturn(rc),
                       rowBefore |-> rowNo]
    /\ UNCHANGED <<connVars, txnVars, bindVars, fldVars, rowsTotal, derefLog, rStrict,
                   bakVars, mvVars, lifeVars, txmVars, shVars, halt>>

\* *temp, of the iterator it++ returned: retrieval_function(*result) reads the
\* row the statement is at now, row 0 standing for a statement that is at no
\* row (the engine's column values are then undefined).
TempDeref ==
    /\ halt = "run"
    /\ tmpResult = "result"
    /\ tmpResult' = "unborn"
    /\ tmpRow' = 0
    /\ lastOp' = [op |-> "temp_deref", row |-> IF curRow # <<>> THEN rowNo ELSE 0,
                  copied |-> tmpRow]
    /\ UNCHANGED <<connVars, txnVars, resVars, moreVars, bakVars, mvVars, lifeVars,
                   txmVars, shVars, halt>>

\* No copy of an iterator.
InitPostInc ==
    /\ tmpResult = "unborn"
    /\ tmpRow = 0

NextPostInc ==
    \/ IterExecuteQuery
    \/ IterBegin
    \/ IterDeref
    \/ IterIncrement
    \/ IterPostIncrement
    \/ TempDeref

\* ------------------------------------------------------------------ kept fields, moves
NoField == [index |-> -1]

\* auto result = statement.execute_query(strict_typing), the argument noted.
FieldExecuteQuery ==
    /\ QueryCore(MaxResultRows)
    /\ strictChosen' = rStrict'
    /\ UNCHANGED <<bindVars, iterVars, fld, fldSnap>>

\* auto field = result[i]: ResultField(stmt, index, strict_typing) caches
\* column_type = sqlite3_column_type(stmt, index) and nothing of the value.
FieldObtain(i) ==
    /\ halt = "run"
    /\ curRow # <<>>
    /\ fld = NoField
    /\ \E v \in ColumnValues(i) :
         /\ fld' = [index |-> i, column_type |-> v.type, strict_typing |-> rStrict]
         /\ fldSnap' = v
         /\ lastOp' = [op |-> "obtain", col |-> i, strict |-> rStrict]
    /\ UNCHANGED <<connVars, txnVars, extVars, resVars, bindVars, iterVars, strictChosen, halt>>

\* T x = field, later: strict_type_check(strict_typing, column_type, ...) on
\* the cached type, then sqlite3_column_*(stmt, index) on the statement as it
\* is now.
FieldConvert(target) ==
    /\ halt = "run"
    /\ fld # NoField
    /\ \E v \in ColumnValues(fld.index) :
         LET res == ConvertTagged(target, fld.column_type, v, fld.strict_typing)
         IN  lastOp' = [op |-> "convert", target |-> target, col |-> fld.index,
                        strict |-> fld.strict_typing, tag |-> fld.column_type,
                        snap |-> fldSnap, now |-> v,
                        outcome |-> res.outcome, value |-> res.value]
    /\ fld' = NoField
    /\ fldSnap' = NullValue
    /\ UNCHANGED <<connVars, txnVars, extVars, resVars, bindVars, iterVars, strictChosen, halt>>

\* Result(Result&& other): stmt, counter and column_count are taken from
\* other; strict_typing is not in the initializer list and keeps its default
\* member initializer, false.
MoveConstructedStrict(otherStrict) == FALSE

\* Result::operator=(Result&& other): stmt, counter and column_count are
\* assigned; strict_typing stays what the assigned-to Result had.
MoveAssignedStrict(otherStrict, ownStrict) == ownStrict

\* Result moved(std::move(result)), or target = std::move(result) where target
\* came from an execute_query of its own; the caller goes on with the
\* moved-to Result.
ResultMove ==
    /\ halt = "run"
    /\ lastOp.op # "none"
    /\ \/ /\ rStrict' = MoveConstructedStrict(rStrict)
          /\ lastOp' = [op |-> "move", how |-> "construct", strictBefore |-> rStrict]
       \/ \E ownStrict \in BOOLEAN :
          /\ rStrict' = MoveAssignedStrict(rStrict, ownStrict)
          /\ lastOp' = [op |-> "move", how |-> "assign", strictBefore |-> rStrict]
    /\ UNCHANGED <<connVars, txnVars, extVars, moreVars, halt, counter, column_count,
                   curRow, rowsLeft>>

InitField ==
    /\ fld = NoField
    /\ fldSnap = NullValue
    /\ strictChosen = FALSE

NextField ==
    \/ FieldExecuteQuery
    \/ ResultStep
    \/ \E i \in 0..(MaxCols - 1) : FieldObtain(i)
    \/ \E target \in HostTypes : FieldConvert(target)
    \/ ResultMove

\* ------------------------------------------------------------------ binding
\* The statement's parameters are numbered from 1; the first two are named
\* ":a" and ":b", the others are anonymous ("?").
Params == 1..MaxParams

ParamName(i) == IF i = 1 THEN ":a" ELSE IF i = 2 THEN ":b" ELSE "?"

\* The names the caller binds by; ":zz" is not a parameter of the statement.
BindNames == {":a", ":b", ":zz"}

\* Mutant: a name lookup that answers with the positional cursor.
sqlite3_bind_parameter_index_Cursor(name) == parameter_index

\* sqlite3_bind_parameter_index(stmt, name): the index of the parameter of
\* that name, 0 when the statement has none.
sqlite3_bind_parameter_index(name) ==
    IF \E i \in Params : ParamName(i) = name
    THEN CHOOSE i \in Params : ParamName(i) = name
    ELSE 0

\* sqlite3_bind_*(stmt, index, ...): SQLITE_MISUSE when the statement has been
\* stepped more recently than reset, SQLITE_RANGE when index is not a
\* parameter, else SQLITE_OK; bind_parameter raises unless SQLITE_OK.
BindCode(index) ==
    IF exec # "ready" THEN "MISUSE"
    ELSE IF index \notin Params THEN "RANGE"
    ELSE "OK"

\* Mutant: a positional bind that leaves the cursor where it was.
CursorAfterBind_Stay(idx) == idx

\* Statement::operator<<(T): ++parameter_index after bind_parameter returned.
CursorAfterBind(idx) == idx + 1

\* statement << v on the state st = [idx, bnd, ok, n] (cursor, bindings, no
\* exception so far, binds done): bind_parameter(*stmt_ptr, parameter_index, v)
\* raises, leaving the cursor, or binds and the cursor advances.
StreamOne(st, v) ==
    IF ~st.ok THEN st
    ELSE IF BindCode(st.idx) = "OK"
         THEN [idx |-> CursorAfterBind(st.idx),
               bnd |-> [st.bnd EXCEPT ![st.idx] = v],
               ok |-> TRUE, n |-> st.n + 1]
         ELSE [st EXCEPT !.ok = FALSE]

\* statement << vals[1] << vals[2] << ..., left to right.
RECURSIVE StreamAll(_, _)
StreamAll(st, vals) ==
    IF vals = <<>> THEN st ELSE StreamAll(StreamOne(st, Head(vals)), Tail(vals))

\* A chain of positional binds as one operation of the caller.
BindStream(vals, rec) ==
    LET st == StreamAll([idx |-> parameter_index, bnd |-> bound, ok |-> TRUE, n |-> 0],
                        vals)
    IN  /\ halt = "run"
        /\ UNCHANGED <<connVars, txnVars, extVars, resVars, iterVars, fldVars, halt, exec>>
        /\ parameter_index' = st.idx
        /\ bound' = st.bnd
        /\ posBinds' = posBinds + st.n
        /\ lastOp' = [rec EXCEPT !.ok = st.ok, !.indexBefore = parameter_index,
                                 !.done = st.n]

\* The record of a bind, for the claims.
BindOp(op) == [op |-> op, ok |-> FALSE, indexBefore |-> 0, done |-> 0]

\* statement << value.
BindPositional(v) == BindStream(<<v>>, BindOp("<<") @@ [value |-> v, arg |-> v])

\* operator<<(Statement&, const std::optional<T>&): statement << *value when
\* it has a value, else statement << nullptr.
OptionalBinds(o) == IF o # "empty" THEN o ELSE "NULL"

BindOptional(o) ==
    BindStream(<<OptionalBinds(o)>>,
               BindOp("optional") @@ [value |-> OptionalBinds(o), arg |-> o])

\* The i-th element (from 0) of the tuples the caller streams: std::get<i>.
TupleElem(i) == <<"e0", "e1", "e2", "e3", "e4">>[i + 1]

\* Mutant: a tuple streamed last element first.
TupleStream_Reversed(n) == [i \in 1..n |-> TupleElem(n - i)]

\* operator<<(Statement&, const std::tuple<T1, ..., Tn>&):
\* statement << get<0>(value) << ... << get<n-1>(value).
TupleStream(n) == [i \in 1..n |-> TupleElem(i - 1)]

BindTuple(n) == BindStream(TupleStream(n), BindOp("tuple") @@ [n |-> n])

\* Mutant: a Parameter constructor without the test of the index.
ParameterRaises_Never(index) == FALSE

\* Parameter::Parameter(stmt, name): throw_error if (index == 0).
ParameterRaises(index) == index = 0

\* statement[name] = v: Parameter(*stmt_ptr, name) resolves the name, then
\* Parameter::operator= calls bind_parameter(stmt, index, v).
BindNamed(name, v) ==
    LET index == sqlite3_bind_parameter_index(name) IN
    /\ halt = "run"
    /\ UNCHANGED <<connVars, txnVars, extVars, resVars, iterVars, fldVars, halt, exec,
                   parameter_index, posBinds>>
    /\ IF ParameterRaises(index)
       THEN /\ bound' = bound
            /\ lastOp' = [op |-> "named", name |-> name, value |-> v, ok |-> FALSE,
                          attempted |-> FALSE]
       ELSE /\ bound' = IF BindCode(index) = "OK"
                        THEN [bound EXCEPT ![index] = v] ELSE bound
            /\ lastOp' = [op |-> "named", name |-> name, value |-> v,
                          ok |-> (BindCode(index) = "OK"), attempted |-> TRUE]

\* sqlite3_reset(stmt): resets the statement; its result is the error of the
\* most recent sqlite3_step if that step failed, else SQLITE_OK.
ResetCode == IF exec = "failed" THEN "ERROR" ELSE "OK"

\* Statement::reset(clear_bindings): sqlite3_reset; check_result_ok raises on
\* an error; then parameter_index = 1 and, if asked, sqlite3_clear_bindings.
StmtReset(clear_bindings) ==
    /\ halt = "run"
    /\ UNCHANGED <<connVars, txnVars, extVars, resVars, iterVars, fldVars, halt>>
    /\ exec' = "ready"
    /\ lastOp' = [op |-> "reset", clear |-> clear_bindings, ok |-> (ResetCode = "OK"),
                  rc |-> ResetCode, indexBefore |-> parameter_index]
    /\ IF ResetCode = "OK"
       THEN /\ parameter_index' = 1
            /\ posBinds' = 0
            /\ bound' = IF clear_bindings THEN [i \in Params |-> "NULL"] ELSE bound
       ELSE UNCHANGED <<parameter_index, posBinds, bound>>

\* Statement::execute(): sqlite3_step; SQLITE_DONE or SQLITE_ROW returns,
\* anything else (a constraint violation) raises.
BindExecute ==
    /\ halt = "run"
    /\ UNCHANGED <<connVars, txnVars, extVars, resVars, iterVars, fldVars, halt,
                   parameter_index, posBinds, bound>>
    /\ \E rc \in {"DONE", "CONSTRAINT"} :
         /\ exec' = IF rc = "DONE" THEN "stepped" ELSE "failed"
         /\ lastOp' = [op |-> "execute", ok |-> (rc = "DONE"), rc |-> rc]

\* After `auto statement = connection.prepare(sql)`: cursor 1, every
\* parameter NULL.
InitBind ==
    /\ parameter_index = 1
    /\ bound = [i \in Params |-> "NULL"]
    /\ exec = "ready"
    /\ posBinds = 0

NextBind ==
    \/ BindPositional("v")
    \/ \E o \in {"empty", "v"} : BindOptional(o)
    \/ \E n \in 1..MaxTuple : BindTuple(n)
    \/ \E name \in BindNames : BindNamed(name, "w")
    \/ \E clear_bindings \in BOOLEAN : StmtReset(clear_bindings)
    \/ BindExecute

\* ------------------------------------------------------------------ lifetimes
\* Statement::execute_query(strict_typing): assert(stmt_ptr && *stmt_ptr);
\* return Result(*stmt_ptr, strict_typing). The Result keeps the handle itself.
StmtExecuteQuery(c) ==
    /\ halt = "run"
    /\ stmtObj[c] = "alive"
    /\ resStmt = 0
    /\ IF cell[c] = 0
       THEN /\ halt' = "assert"
            /\ lastOp' = [op |-> "execute_query", cell |-> c, ok |-> FALSE]
            /\ UNCHANGED resStmt
       ELSE /\ resStmt' = cell[c]
            /\ lastOp' = [op |-> "execute_query", cell |-> c, ok |-> TRUE]
            /\ UNCHANGED halt
    /\ UNCHANGED <<connVars, txnVars, resVars, moreVars, lateVars, bakVars, mvVars,
                   txHVars, otherVars>>

\* Result::step(): assert(stmt); sqlite3_step(stmt).
ResultStepOnHandle ==
    /\ halt = "run"
    /\ resStmt # 0
    /\ IF nativeStmt[resStmt] = "live"
       THEN /\ \E rc \in {"ROW", "DONE"} :
                 lastOp' = [op |-> "result_step", handle |-> resStmt, rc |-> rc]
            /\ UNCHANGED <<staleCalls, halt>>
       ELSE /\ staleCalls' = staleCalls \cup {<<"result_step", resStmt>>}
            /\ \E rc \in StaleOutcomes :
                 /\ halt' = IF rc = "fault" THEN "fault" ELSE halt
                 /\ lastOp' = [op |-> "result_step", handle |-> resStmt, rc |-> rc]
    /\ UNCHANGED <<db, stmt_ptrs, stmtObj, cell, blobObj, nativeDb, nativeStmt,
                   stmtDb, nativeBlob, blobDb, finalizeCalls>>
    /\ UNCHANGED <<txnVars, resVars, moreVars, lateVars, bakVars, mvVars, lifeVars>>

\* The Result goes out of scope: it has no destructor of its own.
ResultDestroy ==
    /\ halt = "run"
    /\ resStmt # 0
    /\ resStmt' = 0
    /\ lastOp' = [op |-> "result_destroy"]
    /\ UNCHANGED <<connVars, txnVars, resVars, moreVars, lateVars, bakVars, mvVars,
                   txHVars, otherVars, halt>>

\* Connection::begin_transaction(): return Transaction(db), whose constructor
\* runs begin(): sqlite3_exec(db, "BEGIN"), committed = false.
ConnBeginTransaction ==
    /\ halt = "run"
    /\ db # 0
    /\ txDb = 0
    /\ txDb' = db
    /\ txCommitted' = FALSE
    /\ lastOp' = [op |-> "begin_transaction", handle |-> db]
    /\ UNCHANGED <<connVars, txnVars, resVars, moreVars, lateVars, bakVars, mvVars,
                   resStmt, staleDbCalls, otherVars, halt>>

\* Whether a member of Transaction calls the engine with db: commit() and
\* begin() call sqlite3_exec, rollback() calls sqlite3_get_autocommit, and
\* ~Transaction calls rollback() if (!committed).
TxnCallsEngine(op) == op # "destroy" \/ ~txCommitted

\* Transaction::commit(), begin(), rollback() and ~Transaction on the
\* Transaction that holds txDb.
TxnOnHandle(op) ==
    /\ halt = "run"
    /\ txDb # 0
    /\ LET stale == TxnCallsEngine(op) /\ nativeDb[txDb] # "open"
       IN  \E rc \in IF stale THEN StaleOutcomes ELSE {"OK"} :
             /\ staleDbCalls' = IF stale THEN staleDbCalls \cup {<<op, txDb>>}
                                ELSE staleDbCalls
             /\ halt' = IF rc = "fault" THEN "fault" ELSE halt
             /\ txCommitted' = CASE op = "destroy" -> FALSE
                                 [] op = "commit" /\ rc = "OK" -> TRUE
                                 [] op = "begin" /\ rc = "OK" -> FALSE
                                 [] OTHER -> txCommitted
             /\ lastOp' = [op |-> "txn", member |-> op, handle |-> txDb,
                           engine |-> TxnCallsEngine(op), rc |-> rc]
    /\ txDb' = IF op = "destroy" THEN 0 ELSE txDb
    /\ UNCHANGED <<connVars, txnVars, resVars, moreVars, lateVars, bakVars, mvVars,
                   resStmt, otherVars>>

\* Transaction moved(std::move(txn)): db(other.db), committed(other.committed);
\* other.db = nullptr; other.committed = false. txDb and txCommitted are the
\* members of the object that holds the handle, txHusk is the moved-from one.
TxnMoveConstruct ==
    /\ halt = "run"
    /\ txDb # 0
    /\ txHusk = "unborn"
    /\ txHusk' = "alive"
    /\ lastOp' = [op |-> "txn_move", handle |-> txDb, committed |-> txCommitted]
    /\ UNCHANGED <<connVars, txnVars, resVars, moreVars, bakVars, mvVars, lifeVars,
                   shVars, pincVars, halt>>

\* Transaction::committed of the moved-from object, as the move constructor
\* leaves it.
HuskCommitted == FALSE

\* sqlite3_get_autocommit(nullptr): with API armor the engine reports misuse
\* and answers 0, on which rollback() executes ROLLBACK on nullptr (misuse
\* again); without, it reads through the null pointer.
NullOutcomes == {"MISUSE", "fault"}

\* ~Transaction of the moved-from object: if (!committed) rollback(), with
\* db == nullptr.
TxnHuskDestroy ==
    /\ halt = "run"
    /\ txHusk = "alive"
    /\ txHusk' = "dead"
    /\ LET called == ~HuskCommitted
       IN  \E rc \in IF called THEN NullOutcomes ELSE {"none"} :
             /\ staleDbCalls' = IF called THEN staleDbCalls \cup {<<"husk_destroy", 0>>}
                                ELSE staleDbCalls
             /\ halt' = IF rc = "fault" THEN "fault" ELSE halt
             /\ lastOp' = [op |-> "txn_husk_destroy", engine |-> called, rc |-> rc]
    /\ UNCHANGED <<connVars, txnVars, resVars, moreVars, bakVars, mvVars, resStmt,
                   txDb, txCommitted, otherVars, shVars, pincVars>>

\* Connection other(std::move(conn)): db(other.db), other.db = nullptr; the
\* new Connection's stmt_ptrs is default-constructed, conn keeps its own.
ConnMoveConstruct ==
    /\ halt = "run"
    /\ otherObj = "unborn"
    /\ otherObj' = "alive"
    /\ otherDb' = db
    /\ otherPtrs' = <<>>
    /\ db' = 0
    /\ lastOp' = [op |-> "conn_move_construct", handle |-> db]
    /\ UNCHANGED <<stmt_ptrs, stmtObj, cell, blobObj, nativeDb, nativeStmt, stmtDb,
                   nativeBlob, blobDb, finalizeCalls, staleCalls>>
    /\ UNCHANGED <<txnVars, resVars, moreVars, lateVars, bakVars, mvVars, resStmt, txHVars,
                   halt>>

\* other = std::move(conn) or conn = std::move(other): swap(db, other.db);
\* swap(stmt_ptrs, other.stmt_ptrs).
ConnMoveAssign ==
    /\ halt = "run"
    /\ otherObj = "alive"
    /\ db' = otherDb
    /\ otherDb' = db
    /\ stmt_ptrs' = otherPtrs
    /\ otherPtrs' = stmt_ptrs
    /\ lastOp' = [op |-> "conn_move_assign"]
    /\ UNCHANGED <<stmtObj, cell, blobObj, nativeDb, nativeStmt, stmtDb,
                   nativeBlob, blobDb, finalizeCalls, staleCalls, otherObj>>
    /\ UNCHANGED <<txnVars, resVars, moreVars, lateVars, bakVars, mvVars, resStmt, txHVars,
                   halt>>

\* other.close(): Connection::close() on the second Connection.
OtherClose ==
    /\ halt = "run"
    /\ otherObj = "alive"
    /\ UNCHANGED <<txnVars, resVars, moreVars, lateVars, bakVars, mvVars, resStmt, txHVars,
                   otherObj, db, stmt_ptrs>>
    /\ IF otherDb = 0
       THEN /\ lastOp' = [op |-> "other_close", had |-> 0, calls |-> 0, forced |-> {}]
            /\ UNCHANGED <<stmtObj, cell, blobObj, nativeDb, nativeStmt, stmtDb,
                           nativeBlob, blobDb, finalizeCalls, staleCalls,
                           otherDb, otherPtrs, halt>>
       ELSE IF ~EngineBusy(otherDb, nativeStmt, nativeBlob)
       THEN /\ nativeDb' = [nativeDb EXCEPT ![otherDb] = "closed"]
            /\ otherDb' = 0
            /\ lastOp' = [op |-> "other_close", had |-> otherDb, calls |-> 1,
                          forced |-> {}]
            /\ UNCHANGED <<stmtObj, cell, blobObj, nativeStmt, stmtDb, nativeBlob,
                           blobDb, finalizeCalls, staleCalls, otherPtrs, halt>>
       ELSE LET forced == Range(ForcedHandles(otherPtrs))
                stale == {h \in forced : nativeStmt[h] = "finalized"}
                nStmt == [h \in Cells |->
                            IF h \in forced THEN "finalized" ELSE nativeStmt[h]]
            IN  /\ finalizeCalls' = [h \in Cells |->
                        finalizeCalls[h] + (IF h \in forced THEN 1 ELSE 0)]
                /\ staleCalls' = staleCalls \cup {<<"finalize", h>> : h \in stale}
                /\ nativeStmt' = nStmt
                /\ otherPtrs' = <<>>
                /\ nativeDb' = [nativeDb EXCEPT ![otherDb] =
                        IF EngineBusy(otherDb, nStmt, nativeBlob) THEN "open"
                        ELSE "closed"]
                /\ otherDb' = 0
                /\ lastOp' = [op |-> "other_close", had |-> otherDb, calls |-> 2,
                              forced |-> forced]
                /\ \/ halt' = halt
                   \/ stale # {} /\ halt' = "fault"
                /\ UNCHANGED <<stmtObj, cell, blobObj, stmtDb, nativeBlob, blobDb>>

\* No Result, no Transaction, no second Connection.
InitLife ==
    /\ resStmt = 0
    /\ txDb = 0
    /\ txCommitted = FALSE
    /\ staleDbCalls = {}
    /\ otherObj = "unborn"
    /\ otherDb = 0
    /\ otherPtrs = <<>>
    /\ txHusk = "unborn"

TxnMembers == {"commit", "begin", "rollback", "destroy"}

\* A Result over the statements of a connection.
NextLifeResult ==
    \/ ConnPrepare
    \/ ConnClose
    \/ \E c \in Cells : StmtFinalize(c)
    \/ \E c \in Cells : StmtDestroy(c)
    \/ \E c \in Cells : StmtExecuteQuery(c)
    \/ ResultStepOnHandle
    \/ ResultDestroy

\* A Transaction on a connection that is closed and reopened.
NextLifeTxn ==
    \/ ConnOpen
    \/ ConnPrepare
    \/ ConnClose
    \/ \E c \in Cells : StmtDestroy(c)
    \/ ConnBeginTransaction
    \/ \E op \in TxnMembers : TxnOnHandle(op)

\* Two Connection objects, the native handle moved between them.
NextLifeMove ==
    \/ ConnOpen
    \/ ConnPrepare
    \/ ConnClose
    \/ \E c \in Cells : StmtFinalize(c)
    \/ \E c \in Cells : StmtDestroy(c)
    \/ ConnMoveConstruct
    \/ ConnMoveAssign
    \/ OtherClose

\* A Transaction moved into another object, and both destroyed.
NextTxnMove ==
    \/ ConnOpen
    \/ ConnClose
    \/ ConnBeginTransaction
    \/ \E op \in TxnMembers : TxnOnHandle(op)
    \/ TxnMoveConstruct
    \/ TxnHuskDestroy

\* ------------------------------------------------------------------ errors
\* The engine's result codes the wrapper switches on (sqlite3.h).
SQLITE_OK == 0
SQLITE_BUSY == 5
SQLITE_LOCKED == 6
SQLITE_CONSTRAINT == 19

\* The result codes an engine call may report: a primary code in the low
\* byte and an extended code above it.
ResultCodes == {p + 256 * e : p \in 0..MaxPrimary, e \in 0..MaxExtended}

\* throw_error with the switch on result_code itself, not on its low byte.
throw_error_NoMask(result_code) ==
    [type |-> CASE result_code = SQLITE_BUSY -> "BusyError"
                [] result_code = SQLITE_CONSTRAINT -> "ConstraintError"
                [] result_code = SQLITE_LOCKED -> "LockedError"
                [] OTHER -> "Error",
     code |-> result_code]

\* throw_error(message, result_code): switch (result_code & 0xff), each
\* case constructing its class with (what_arg, result_code); Error::code()
\* returns the stored error_code.
throw_error(result_code) ==
    [type |-> CASE result_code % 256 = SQLITE_BUSY -> "BusyError"
                [] result_code % 256 = SQLITE_CONSTRAINT -> "ConstraintError"
                [] result_code % 256 = SQLITE_LOCKED -> "LockedError"
                [] OTHER -> "Error",
     code |-> result_code]

\* What no exception looks like in lastOp.
NoError == [type |-> "none", code |-> 0]

\* check_result_ok(db, result_code): raises through throw_error unless the
\* code is SQLITE_OK.
check_result_ok(result_code) ==
    IF result_code # SQLITE_OK THEN throw_error(result_code) ELSE NoError

\* One engine call of the wrapper returns result_code and the wrapper checks
\* it with check_result_ok.
CheckedCall ==
    /\ halt = "run"
    /\ \E result_code \in ResultCodes :
         lastOp' = [op |-> "check_result_ok", rc |-> result_code,
                    raised |-> check_result_ok(result_code)]
    /\ UNCHANGED <<connVars, txnVars, extVars, resVars, moreVars, halt>>

NextErr ==
    \/ CheckedCall

\* ------------------------------------------------------------------ shared cursor
\* Two Results obtained from one Statement, whose query has MaxResultRows
\* rows. The statement is one native handle with one execution position.
ShareResults == {1, 2}

\* Statement::execute_query with a sqlite3_reset before the Result is made.
ExecuteQueryPosition_Rewinds(pos) == 0

\* Statement::execute_query(strict_typing): assert; return Result(*stmt_ptr,
\* strict_typing). It makes no engine call: the execution position of the
\* statement afterwards is the position before.
ExecuteQueryPosition(pos) == pos

\* auto result = statement.execute_query(), for the Result r.
ShareExecuteQuery(r) ==
    /\ halt = "run"
    /\ shRes[r] = "unborn"
    /\ shRes' = [shRes EXCEPT ![r] = "alive"]
    /\ shPos' = ExecuteQueryPosition(shPos)
    /\ lastOp' = [op |-> "share_query", r |-> r]
    /\ UNCHANGED <<connVars, txnVars, resVars, moreVars, bakVars, mvVars, lifeVars,
                   txmVars, pincVars, shRun, shGot, halt>>

\* sqlite3_step of a statement that has reported SQLITE_DONE: the engine
\* resets the statement and executes it anew ("restart"), or, built without
\* the automatic reset, reports misuse.
AfterDoneOutcomes == {"restart", "MISUSE"}

\* Result::step() of the Result r: sqlite3_step(stmt) on the shared handle.
\* The step produces the row after the last one produced, or SQLITE_DONE
\* after the last row.
ShareStep(r) ==
    /\ halt = "run"
    /\ shRes[r] = "alive"
    /\ \E how \in IF shPos = -1 THEN AfterDoneOutcomes ELSE {"next"} :
         /\ how = "restart" => shRun < MaxRuns
         /\ LET run == IF how = "restart" THEN shRun + 1 ELSE shRun
                pos == IF how = "restart" THEN 0 ELSE shPos
                rc == CASE how = "MISUSE" -> "MISUSE"
                        [] pos < MaxResultRows -> "ROW"
                        [] OTHER -> "DONE"
            IN  /\ shRun' = run
                /\ shPos' = CASE rc = "ROW" -> pos + 1
                              [] rc = "DONE" -> -1
                              [] OTHER -> shPos
                /\ shGot' = IF rc = "ROW"
                            THEN [shGot EXCEPT ![r] = @ \cup {<<run, pos + 1>>}]
                            ELSE shGot
                /\ lastOp' = [op |-> "share_step", r |-> r, rc |-> rc,
                              ret |-> StepReturn(rc), run |-> run,
                              row |-> IF rc = "ROW" THEN pos + 1 ELSE 0,
                              posBefore |-> shPos]
    /\ UNCHANGED <<connVars, txnVars, resVars, moreVars, bakVars, mvVars, lifeVars,
                   txmVars, pincVars, shRes, halt>>

\* A prepared statement that has not been stepped, and no Result.
InitShare ==
    /\ shRes = [r \in ShareResults |-> "unborn"]
    /\ shRun = 1
    /\ shPos = 0
    /\ shGot = [r \in ShareResults |-> {}]

NextShare ==
    \/ \E r \in ShareResults : ShareExecuteQuery(r)
    \/ \E r \in ShareResults : ShareStep(r)

\* ------------------------------------------------------------------ failed open
\* The result codes sqlite3_open reports for a file it cannot open.
OpenFailureCodes == {rc \in ResultCodes : rc # SQLITE_OK /\ rc % 256 # SQLITE_OK}

\* What sqlite3_open leaves in *ppDb when it fails: a handle that holds the
\* error ("handle"), or NULL when it could not allocate one ("nomem").
OpenFailureKinds == {"handle", "nomem"}

\* check_open_ok(db, result_code), the handle: sqlite3_close(db) if (db); the
\* parameter is a copy, the member Connection::db is not reset.
check_open_ok(d, nDb) == IF d # 0 THEN [nDb EXCEPT ![d] = "closed"] ELSE nDb

\* Connection::open(filename) of a file that cannot be opened: assert(!db);
\* sqlite3_open(filename, &db) stores its handle in the member and reports
\* result_code; check_open_ok closes the handle and raises.
ConnOpenFails ==
    /\ halt = "run"
    /\ UNCHANGED <<txnVars, resVars, moreVars, extVars>>
    /\ IF db # 0
       THEN /\ halt' = "assert"
            /\ lastOp' = [op |-> "open_fails", handle |-> 0, raised |-> NoError]
            /\ UNCHANGED connVars
       ELSE \E kind \in OpenFailureKinds, result_code \in OpenFailureCodes :
            \E d \in DbHandles :
            /\ nativeDb[d] = "unopened"
            /\ \A e \in DbHandles : e < d => nativeDb[e] # "unopened"
            /\ LET got == IF kind = "handle" THEN d ELSE 0
               IN  /\ db' = got
                   /\ nativeDb' = check_open_ok(got, nativeDb)
                   /\ lastOp' = [op |-> "open_fails", handle |-> got,
                                 raised |-> throw_error(result_code)]
            /\ UNCHANGED <<stmt_ptrs, stmtObj, cell, blobObj, nativeStmt, stmtDb,
                           nativeBlob, blobDb, finalizeCalls, staleCalls, halt>>

\* Connection::close(), also as ~Connection calls it, on whatever db holds.
\* sqlite3_close of a handle that was closed already is undefined: it may
\* report OK (db = nullptr follows), report misuse (the assert on SQLITE_BUSY
\* aborts), or crash.
ConnCloseOnHandle ==
    IF db # 0 /\ nativeDb[db] = "closed"
    THEN /\ halt = "run"
         /\ \E rc \in StaleOutcomes :
              /\ db' = IF rc = "OK" THEN 0 ELSE db
              /\ halt' = CASE rc = "OK" -> halt
                           [] rc = "MISUSE" -> "assert"
                           [] OTHER -> "fault"
              /\ lastOp' = [op |-> "close", had |-> db, calls |-> 1, forced |-> {}]
         /\ staleDbCalls' = staleDbCalls \cup {<<"close", db>>}
         /\ UNCHANGED <<stmt_ptrs, stmtObj, cell, blobObj, nativeDb, nativeStmt, stmtDb,
                        nativeBlob, blobDb, finalizeCalls, staleCalls>>
         /\ UNCHANGED <<txnVars, resVars, moreVars, lateVars, bakVars, mvVars, resStmt, txDb,
                        txCommitted, otherVars>>
    ELSE ConnClose

\* Opens that succeed and fail, and closes, of one Connection object.
NextOpen ==
    \/ ConnOpen
    \/ ConnOpenFails
    \/ ConnCloseOnHandle

\* ------------------------------------------------------------------ Backup
\* The database names a Backup may be constructed with: "main" exists on
\* every connection, "nosuch" names no attached database.
DatabaseNames == {"main", "nosuch"}

\* sqlite3_backup_init(destination, name, source, name): a backup handle, or
\* NULL (0) when a name denotes no database of its connection.
sqlite3_backup_init(source_database, destination_database) ==
    IF source_database = "main" /\ destination_database = "main" THEN 1 ELSE 0

\* Backup::Backup(source, source_database, destination, destination_database):
\* backup = sqlite3_backup_init(...); the result is stored as it is.
BackupConstruct ==
    /\ halt = "run"
    /\ bkObj = "unborn"
    /\ \E source_database \in DatabaseNames, destination_database \in DatabaseNames :
         /\ backup' = sqlite3_backup_init(source_database, destination_database)
         /\ lastOp' = [op |-> "Backup", raised |-> FALSE, handle |-> backup']
    /\ bkObj' = "alive"
    /\ iNext' = 1
    /\ UNCHANGED <<connVars, txnVars, resVars, moreVars, lateVars, mvVars, lifeVars, halt,
                   srcPages, dstPages, nRemaining, nPagecount, bkDone, writes>>

\* How many pages one sqlite3_backup_step(backup, num_pages) copies: up to
\* num_pages, all that remain when num_pages is negative.
PagesToCopy(num_pages) ==
    LET left == Len(srcPages) + 1 - iNext
    IN  IF num_pages < 0 \/ num_pages > left THEN left ELSE num_pages

\* The destination after the engine copied source pages iNext .. upTo - 1;
\* once the last page is copied the destination is cut to the source's size.
CopyPages(upTo) ==
    LET n == IF upTo > Len(srcPages) \/ Len(dstPages) < upTo - 1
             THEN upTo - 1 ELSE Len(dstPages)
    IN  [i \in 1..n |->
            IF i >= iNext /\ i < upTo THEN srcPages[i]
            ELSE IF i <= Len(dstPages) THEN dstPages[i] ELSE 0]

\* Backup::step with SQLITE_DONE taken for "more to copy".
BackupStepReturn_DoneIsTrue(result_code) ==
    CASE result_code = "OK" -> "true"
      [] result_code = "DONE" -> "true"
      [] OTHER -> "raise"

\* Backup::step(num_pages): the switch on the result of sqlite3_backup_step.
BackupStepReturn(result_code) ==
    CASE result_code = "OK" -> "true"
      [] result_code = "DONE" -> "false"
      [] OTHER -> "raise"

\* Backup::pages_remaining(): sqlite3_backup_remaining(backup).
pages_remaining == nRemaining

\* Backup::page_count(): sqlite3_backup_pagecount(backup).
page_count == nPagecount

\* The values of num_pages that step() is called with.
StepSizes == -1..MaxStepPages

\* Backup::step(num_pages): assert(backup); sqlite3_backup_step. The engine
\* copies, reports OK while pages are left and DONE when none is, and keeps
\* reporting DONE afterwards; it may instead report BUSY and copy nothing.
BackupStep(num_pages) ==
    /\ halt = "run"
    /\ bkObj = "alive"
    /\ UNCHANGED <<connVars, txnVars, resVars, moreVars, lateVars, mvVars, lifeVars, bkObj, backup, srcPages, writes>>
    /\ IF backup = 0
       THEN /\ halt' = "assert"
            /\ lastOp' = [op |-> "backup_step", n |-> num_pages, rc |-> "none",
                          ret |-> "abort", remaining |-> pages_remaining,
                          copied |-> FALSE]
            /\ UNCHANGED <<dstPages, iNext, nRemaining, nPagecount, bkDone>>
       ELSE IF bkDone
       THEN /\ lastOp' = [op |-> "backup_step", n |-> num_pages, rc |-> "DONE",
                          ret |-> BackupStepReturn("DONE"),
                          remaining |-> pages_remaining, copied |-> FALSE]
            /\ UNCHANGED <<dstPages, iNext, nRemaining, nPagecount, bkDone, halt>>
       ELSE \/ /\ lastOp' = [op |-> "backup_step", n |-> num_pages, rc |-> "BUSY",
                             ret |-> BackupStepReturn("BUSY"),
                             remaining |-> pages_remaining, copied |-> FALSE]
               /\ UNCHANGED <<dstPages, iNext, nRemaining, nPagecount, bkDone, halt>>
            \/ LET upTo == iNext + PagesToCopy(num_pages)
                   rc == IF upTo > Len(srcPages) THEN "DONE" ELSE "OK"
               IN  /\ dstPages' = CopyPages(upTo)
                   /\ iNext' = upTo
                   /\ nPagecount' = Len(srcPages)
                   /\ nRemaining' = Len(srcPages) + 1 - upTo
                   /\ bkDone' = (rc = "DONE")
                   /\ lastOp' = [op |-> "backup_step", n |-> num_pages, rc |-> rc,
                                 ret |-> BackupStepReturn(rc),
                                 remaining |-> nRemaining', copied |-> TRUE]
                   /\ UNCHANGED halt

\* A write to the source database through the source connection: it changes
\* page p or appends it. While a backup is in progress the engine repeats a
\* write to an already copied page in the destination.
SourceWrite(p) ==
    /\ halt = "run"
    /\ writes < MaxWrites
    /\ p <= Len(srcPages) + 1
    /\ writes' = writes + 1
    /\ srcPages' = [i \in 1..(IF p > Len(srcPages) THEN p ELSE Len(srcPages)) |->
                      IF i = p THEN writes + 2 ELSE srcPages[i]]
    /\ dstPages' = IF backup # 0 /\ ~bkDone /\ p < iNext
                   THEN [dstPages EXCEPT ![p] = writes + 2] ELSE dstPages
    /\ lastOp' = [op |-> "source_write", page |-> p]
    /\ UNCHANGED <<connVars, txnVars, resVars, moreVars, lateVars, mvVars, lifeVars, halt,
                   bkObj, backup, iNext, nRemaining, nPagecount, bkDone>>

\* Backup::close(): if (backup) { sqlite3_backup_finish(backup); backup =
\* nullptr; }.
BackupClose ==
    /\ halt = "run"
    /\ bkObj = "alive"
    /\ backup' = 0
    /\ lastOp' = [op |-> "backup_close", engine |-> (backup # 0)]
    /\ UNCHANGED <<connVars, txnVars, resVars, moreVars, lateVars, mvVars, lifeVars, halt, bkObj,
                   srcPages, dstPages, iNext, nRemaining, nPagecount, bkDone, writes>>

\* Before `Backup backup(source, "main", destination, "main")`: a source of
\* two pages, a destination of three pages of its own.
InitBackup ==
    /\ bkObj = "unborn"
    /\ backup = 0
    /\ srcPages = <<1, 1>>
    /\ dstPages = <<0, 0, 0>>
    /\ iNext = 1
    /\ nRemaining = 0
    /\ nPagecount = 0
    /\ bkDone = FALSE
    /\ writes = 0

NextBackup ==
    \/ BackupConstruct
    \/ \E num_pages \in StepSizes : BackupStep(num_pages)
    \/ \E p \in 1..MaxPages : SourceWrite(p)
    \/ BackupClose

\* ------------------------------------------------------------------ integers
\* The host integer types that have a bind_parameter overload and a
\* ResultField conversion operator.
IntTypes ==
    {"bool", "char", "signed char", "unsigned char", "short", "unsigned short",
     "int", "unsigned int", "long", "unsigned long", "long long",
     "unsigned long long"}

\* What the build fixes: sizeof(long), 4 or 8 bytes, and whether plain char
\* is signed.
Platforms == [longBytes : {4, 8}, charSigned : BOOLEAN]

\* sizeof(T) in bytes.
SizeOf(T, pf) ==
    CASE T \in {"bool", "char", "signed char", "unsigned char"} -> 1
      [] T \in {"short", "unsigned short"} -> 2
      [] T \in {"int", "unsigned int"} -> 4
      [] T \in {"long", "unsigned long"} -> pf.longBytes
      [] OTHER -> 8

\* std::is_signed<T>.
IsSigned(T, pf) ==
    CASE T = "char" -> pf.charSigned
      [] T \in {"signed char", "short", "int", "long", "long long"} -> TRUE
      [] OTHER -> FALSE

\* A value of an integer type is its two's complement bytes, lowest first.
\* The bytes that values are made of: they give every type its minimum,
\* its maximum, 0, 1, -1 and mixed patterns.
ByteSamples == {0, 1, 127, 128, 255}

\* The values of T that are bound: the lowest byte, the bytes between and
\* the highest byte each drawn from ByteSamples; true and false for bool.
HostValues(T, pf) ==
    IF T = "bool" THEN {<<0>>, <<1>>}
    ELSE {[i \in 1..SizeOf(T, pf) |->
             IF i = 1 THEN lo ELSE IF i = SizeOf(T, pf) THEN hi ELSE mid] :
          lo \in ByteSamples, mid \in ByteSamples, hi \in ByteSamples}

\* static_cast to an integer type of n bytes, of a value whose type is signed
\* or not: the low bytes when narrowing, sign or zero extension when widening.
static_cast(value, signed, n) ==
    IF n <= Len(value) THEN SubSeq(value, 1, n)
    ELSE LET fill == IF signed /\ value[Len(value)] >= 128 THEN 255 ELSE 0
         IN  [i \in 1..n |-> IF i <= Len(value) THEN value[i] ELSE fill]

\* sqlite3_bind_int(stmt, index, int): the parameter holds the 64-bit INTEGER
\* of the same value.
sqlite3_bind_int(value) ==
    [type |-> "INTEGER", bytes |-> static_cast(value, TRUE, 8)]

\* sqlite3_bind_int64(stmt, index, sqlite3_int64).
sqlite3_bind_int64(value) == [type |-> "INTEGER", bytes |-> value]

\* sqlite3_bind_null(stmt, index).
sqlite3_bind_null == [type |-> "NULL", bytes |-> <<>>]

\* bind_parameter(long) with long always taken for as wide as int.
LongIsInt_Always(pf) == TRUE

\* bind_parameter(long): sizeof(long) == sizeof(int).
LongIsInt(pf) == pf.longBytes = 4

\* bind_parameter(stmt, index, T value) of the integer overloads: what the
\* parameter holds afterwards.
bind_parameter(T, value, pf) ==
    CASE T = "bool" ->
           sqlite3_bind_int(IF value # <<0>> THEN <<1, 0, 0, 0>> ELSE <<0, 0, 0, 0>>)
      [] T \in {"char", "signed char", "unsigned char", "short", "unsigned short"} ->
           sqlite3_bind_int(static_cast(value, IsSigned(T, pf), 4))
      [] T = "int" -> sqlite3_bind_int(value)
      [] T = "long" ->
           IF LongIsInt(pf)
           THEN sqlite3_bind_int(static_cast(value, TRUE, 4))
           ELSE sqlite3_bind_int64(static_cast(value, TRUE, 8))
      [] T = "long long" -> sqlite3_bind_int64(value)
      [] OTHER -> sqlite3_bind_int64(static_cast(value, FALSE, 8))

\* The column of the inserted row: a column of INTEGER affinity stores an
\* INTEGER or a NULL as it was bound.
StoredColumn(bound_value) == bound_value

\* sqlite3_column_int(stmt, i) of an INTEGER column: its low 32 bits; 0 of a
\* NULL column.
ColumnInt32(stored) ==
    IF stored.type = "NULL" THEN <<0, 0, 0, 0>> ELSE SubSeq(stored.bytes, 1, 4)

\* sqlite3_column_int64(stmt, i) of an INTEGER column; 0 of a NULL column.
ColumnInt64(stored) ==
    IF stored.type = "NULL" THEN <<0, 0, 0, 0, 0, 0, 0, 0>> ELSE stored.bytes

\* ResultField::operator T() of the integer types: strict_type_check against
\* SQLITE_INTEGER, then the engine's value cast to T.
IntegerField(T, stored, pf, strict) ==
    LET chk == strict_type_check(strict, stored.type, "INTEGER")
        v == CASE T = "bool" ->
                    IF ColumnInt32(stored) # <<0, 0, 0, 0>> THEN <<1>> ELSE <<0>>
               [] T \in {"char", "signed char", "unsigned char", "short",
                         "unsigned short", "int"} ->
                    static_cast(ColumnInt32(stored), TRUE, SizeOf(T, pf))
               [] OTHER -> static_cast(ColumnInt64(stored), TRUE, SizeOf(T, pf))
    IN  IF chk # "ok" THEN [outcome |-> chk, value |-> <<>>]
        ELSE [outcome |-> "value", value |-> v]

\* ResultField::to_optional<T>() and Result::operator>>(optional<T>&): empty
\* for a NULL column, else the conversion to T.
IntegerOptional(T, stored, pf, strict) ==
    IF stored.type # "NULL" THEN IntegerField(T, stored, pf, strict)
    ELSE [outcome |-> "empty", value |-> <<>>]

\* On a fresh table: insert << value; execute; then T(result[0]) of the
\* selected row.
RoundTrip ==
    /\ halt = "run"
    /\ lastOp.op = "none"
    /\ \E pf \in Platforms, T \in IntTypes, strict \in BOOLEAN :
       \E value \in HostValues(T, pf) :
         LET stored == StoredColumn(bind_parameter(T, value, pf))
         IN  lastOp' = [op |-> "round_trip", T |-> T, pf |-> pf, strict |-> strict,
                        value |-> value, stored |-> stored,
                        back |-> IntegerField(T, stored, pf, strict)]
    /\ UNCHANGED <<connVars, txnVars, resVars, moreVars, extVars, halt>>

\* On a fresh table: insert << nullptr, or << an empty optional<T> (which
\* streams nullptr); execute; then result[0].to_optional<T>() of the selected row.
RoundTripNull ==
    /\ halt = "run"
    /\ lastOp.op = "none"
    /\ \E pf \in Platforms, T \in IntTypes, strict \in BOOLEAN,
          how \in {"nullptr", "optional"} :
         LET stored == StoredColumn(sqlite3_bind_null)
         IN  lastOp' = [op |-> "round_trip_null", T |-> T, pf |-> pf,
                        strict |-> strict, how |-> how, stored |-> stored,
                        back |-> IntegerOptional(T, stored, pf, strict)]
    /\ UNCHANGED <<connVars, txnVars, resVars, moreVars, extVars, halt>>

NextRound ==
    \/ RoundTrip
    \/ RoundTripNull

Init ==
    /\ InitConn
    /\ InitTxn
    /\ InitResult
    /\ InitBind
    /\ InitIter
    /\ InitField
    /\ InitBackup
    /\ InitMove
    /\ InitLife
    /\ InitShare
    /\ InitPostInc
    /\ halt = "run"
    /\ lastOp = NoOp

NextConn ==
    \/ ConnOpen
    \/ ConnPrepare
    \/ ConnOpenBlob
    \/ ConnClose
    \/ \E b \in Blobs : BlobDestroy(b)
    \/ \E c \in Cells : StmtFinalize(c)
    \/ \E c \in Cells : StmtDestroy(c)
    \/ \E c \in Cells : StmtExecute(c)
    \/ \E c \in Cells : StmtMoveConstruct(c)
    \/ \E to, from \in {0} \cup Cells : StmtMoveAssign(to, from)
    \/ \E thenDead \in BOOLEAN : HuskFinalize(thenDead)

\* The tracking list alone: prepare, the ends of Statements, close and reopen.
NextTrack ==
    \/ ConnOpen
    \/ ConnPrepare
    \/ ConnClose
    \/ \E c \in Cells : StmtFinalize(c)
    \/ \E c \in Cells : StmtDestroy(c)

SpecTrack == Init /\ [][NextTrack]_vars

SpecConn == Init /\ [][NextConn]_vars

SpecTxn == Init /\ [][NextTxn]_vars

SpecResult == Init /\ [][NextResult]_vars

SpecBind == Init /\ [][NextBind]_vars

SpecIter == Init /\ [][NextIter]_vars

SpecField == Init /\ [][NextField]_vars

SpecErr == Init /\ [][NextErr]_vars

SpecBackup == Init /\ [][NextBackup]_vars

SpecRound == Init /\ [][NextRound]_vars

SpecLifeResult == Init /\ [][NextLifeResult]_vars

SpecLifeTxn == Init /\ [][NextLifeTxn]_vars

SpecLifeMove == Init /\ [][NextLifeMove]_vars

SpecOpen == Init /\ [][NextOpen]_vars

SpecTxnMove == Init /\ [][NextTxnMove]_vars

SpecShare == Init /\ [][NextShare]_vars

SpecPostInc == Init /\ [][NextPostInc]_vars

\* ================================================================== claims
\* ------------------------------------------------------------------ SpecConn

\* C1: a native statement handle is never passed to an engine call after it
\* has been finalized, and sqlite3_finalize receives each handle at most once,
\* for every order of Connection::close, Statement::finalize and ~Statement.
C1_NoCallOnFinalizedHandle ==
    /\ staleCalls = {}
    /\ \A h \in Cells : finalizeCalls[h] <= 1

\* C5: when close() finds the connection busy it force-finalizes every
\* surviving tracked statement, and whenever close() returns on a connection
\* that held a handle, the native connection is closed, whatever handles
\* derived from it were still open.
C5_CloseAlwaysCloses ==
    lastOp.op = "close" /\ lastOp.had # 0 =>
        /\ \A h \in Cells : stmtDb[h] = lastOp.had => nativeStmt[h] # "live"
        /\ nativeDb[lastOp.had] = "closed"

\* ------------------------------------------------------------------ SpecTxn

\* C2: a Transaction destroyed without commit() having succeeded since its
\* last BEGIN leaves no transaction open on the connection, and none of the
\* rows inserted under it is visible afterwards.
C2_UncommittedIsRolledBack ==
    \A t \in Txns :
        lastOp.op = "dtor" /\ lastOp.t = t /\ ~commitOk[t] =>
            /\ autocommit
            /\ batch[t] \cap tbl = {}

C2_Witness ==
    /\ lastOp.op = "dtor"
    /\ ~commitOk[lastOp.t]
    /\ batch[lastOp.t] # {}
    /\ lastOp.issued

\* C3: after commit() succeeded, the destructor issues no ROLLBACK and every
\* row of the committed batch is visible once the Transaction is destroyed.
C3_CommittedStaysVisible ==
    \A t \in Txns :
        lastOp.op = "dtor" /\ lastOp.t = t /\ commitOk[t] =>
            /\ ~lastOp.issued
            /\ lastKept[t] \subseteq tbl

C3_Witness ==
    /\ lastOp.op = "dtor"
    /\ commitOk[lastOp.t]
    /\ lastKept[lastOp.t] # {}

\* C4: with one Transaction object reused (commit, begin() again), every batch
\* whose commit() succeeded stays visible, and a last batch that is never
\* committed is rolled back on destruction without undoing the earlier ones.
C4_BatchesIndependent ==
    \A t \in Txns :
        begins[t] >= 2 =>
            /\ kept[t] \subseteq tbl
            /\ (lastOp.op = "dtor" /\ lastOp.t = t /\ ~commitOk[t] =>
                    batch[t] \cap tbl = {})

C4_Witness ==
    /\ lastOp.op = "dtor"
    /\ begins[lastOp.t] >= 2
    /\ kept[lastOp.t] # {}
    /\ batch[lastOp.t] # {}
    /\ ~commitOk[lastOp.t]
    /\ lastOp.issued

\* C6: destroying a Transaction issues ROLLBACK exactly when commit() has not
\* succeeded since the last BEGIN and the connection is not in autocommit
\* mode; no ROLLBACK is issued while no transaction is open.
C6_RollbackIffActive ==
    /\ lastOp.op = "dtor" =>
          (lastOp.issued <=> (~commitOk[lastOp.t] /\ ~lastOp.autoBefore))
    /\ lastOp.op \in {"dtor", "rollback"} /\ lastOp.issued => ~lastOp.autoBefore

C6_Witness ==
    /\ lastOp.op = "dtor"
    /\ ~commitOk[lastOp.t]
    /\ lastOp.autoBefore
    /\ ~lastOp.issued

IsConversion == lastOp.op \in {"field", ">>"}

\* C8, as stated: with strict typing, a read into optional<T> raises neither
\* a NullTypeError nor a TypeError whatever the column's type, and a NULL
\* column yields an empty optional.
C8_OptionalNeverRaises ==
    IsConversion /\ lastOp.opt /\ lastOp.strict =>
        /\ lastOp.outcome \notin {"TypeError", "NullTypeError"}
        /\ (lastOp.cellv.type = "NULL" => lastOp.outcome = "empty")

\* C8, amended: with strict typing, a read into optional<T> never raises a
\* NullTypeError and a NULL column yields an empty optional; a column that is
\* neither NULL nor of T's storage class still raises a TypeError.
C8_OptionalSuppressesNullOnly ==
    IsConversion /\ lastOp.opt /\ lastOp.strict =>
        /\ lastOp.outcome # "NullTypeError"
        /\ (lastOp.cellv.type = "NULL" => lastOp.outcome = "empty")
        /\ (lastOp.outcome # "assert" =>
              (lastOp.outcome = "TypeError" <=>
                 lastOp.cellv.type \notin {"NULL", ExpectedType(lastOp.target)}))

C8_Witness ==
    /\ IsConversion
    /\ lastOp.opt
    /\ lastOp.strict
    /\ lastOp.counterBefore < lastOp.colsBefore
    /\ lastOp.cellv.type = "NULL"
    /\ lastOp.outcome = "empty"

\* C9: with strict typing, converting a field whose type differs from the
\* storage class of the non-optional host type raises a NullTypeError for a
\* NULL column and a TypeError otherwise; without strict typing the conversion
\* never raises and returns the engine's coerced value.
C9_StrictConversion ==
    IsConversion /\ ~lastOp.opt /\ lastOp.outcome # "assert" =>
        /\ (lastOp.strict /\ lastOp.cellv.type # ExpectedType(lastOp.target) =>
              lastOp.outcome =
                 (IF lastOp.cellv.type = "NULL" THEN "NullTypeError" ELSE "TypeError"))
        /\ (~lastOp.strict =>
              /\ lastOp.outcome = "value"
              /\ lastOp.value = ColumnAs(lastOp.target, lastOp.cellv))

C9_Witness ==
    /\ IsConversion
    /\ ~lastOp.opt
    /\ lastOp.strict
    /\ lastOp.cellv.type = "NULL"
    /\ lastOp.outcome = "NullTypeError"

\* C10: every streaming read made with the field cursor at or past the column
\* count is caught by a check: it reads no column from the engine, and the
\* cursor never goes beyond the column count.
C10_PastEndReadIsChecked ==
    /\ counter <= column_count
    /\ (lastOp.op \in {">>", "as_text"} /\ lastOp.counterBefore >= lastOp.colsBefore =>
          /\ lastOp.outcome = "assert"
          /\ ~lastOp.engineRead)

\* ------------------------------------------------------------------ SpecResult, step()

\* C11: the field cursor decreases only by being set to 0 in a step() that
\* produced a row; a step() that returns false or raises leaves it as it was,
\* and no read moves it backwards.
C11_CursorOnlyResetByRowStep ==
    [][ /\ (counter' < counter =>
              counter' = 0 /\ lastOp'.op = "step" /\ lastOp'.ret = "true")
        /\ (lastOp'.op = "step" /\ lastOp'.ret # "true" => counter' = counter)
        /\ (lastOp'.op \in {"field", ">>", "as_text"} => counter' >= counter) ]_vars

C11_Witness ==
    /\ lastOp.op = "step"
    /\ lastOp.ret = "true"
    /\ lastOp.counterBefore = MaxCols
    /\ counter = 0

\* C17: step() returns true exactly when the engine reports a row, and the
\* column count is cached by then; it returns false exactly when the engine
\* reports completion; for every other response it raises.
C17_StepFollowsEngine ==
    lastOp.op = "step" =>
        /\ (lastOp.ret = "true" <=> lastOp.rc = "ROW")
        /\ (lastOp.ret = "false" <=> lastOp.rc = "DONE")
        /\ (lastOp.ret = "raised" <=> lastOp.rc \notin {"ROW", "DONE"})
        /\ (lastOp.rc = "ROW" => column_count = MaxCols)

C17_Witness ==
    /\ lastOp.op = "step"
    /\ lastOp.rc = "DONE"
    /\ lastOp.ret = "false"
    /\ column_count = MaxCols

\* ------------------------------------------------------------------ SpecBind

\* C12: every call of Statement::reset leaves the positional cursor at 1,
\* whatever clear_bindings is and whatever sqlite3_reset reports.
C12_ResetAlwaysRewinds ==
    lastOp.op = "reset" => parameter_index = 1

\* C13: counted from cursor 1, the k-th successful positional bind binds its
\* value to position k, touches no other position and leaves the cursor at
\* k + 1; an empty optional binds NULL and takes one position like any value.
C13_KthBindBindsPositionK ==
    [][ lastOp'.op \in {"<<", "optional"} /\ lastOp'.ok =>
          /\ parameter_index = posBinds + 1
          /\ bound' = [bound EXCEPT ![posBinds + 1] = lastOp'.value]
          /\ parameter_index' = posBinds + 2
          /\ posBinds' = posBinds + 1
          /\ (lastOp'.op = "optional" /\ lastOp'.arg = "empty" =>
                lastOp'.value = "NULL") ]_vars

C13_Witness ==
    /\ lastOp.op = "optional"
    /\ lastOp.arg = "empty"
    /\ lastOp.ok
    /\ lastOp.indexBefore = 2
    /\ parameter_index = 3
    /\ bound[1] = "v"
    /\ bound[2] = "NULL"

\* C14: a named binding that succeeds binds the position of that name and no
\* other, and leaves the positional cursor unchanged, so that the cursor is
\* always one past the number of positional binds made since it was 1.
C14_NamedBindBypassesCursor ==
    /\ [](parameter_index = posBinds + 1)
    /\ [][ lastOp'.op = "named" /\ lastOp'.ok =>
             /\ parameter_index' = parameter_index
             /\ \E i \in Params :
                  /\ ParamName(i) = lastOp'.name
                  /\ bound' = [bound EXCEPT ![i] = lastOp'.value] ]_vars

C14_Witness ==
    /\ lastOp.op = "named"
    /\ lastOp.ok
    /\ lastOp.name = ":a"
    /\ parameter_index = 2
    /\ bound[1] = "w"

\* C15: a named binding whose name is not a parameter of the statement raises
\* before any bind is attempted; no binding and no cursor changes.
C15_UnknownNameBindsNothing ==
    [][ lastOp'.op = "named" /\ (\A i \in Params : ParamName(i) # lastOp'.name) =>
          /\ ~lastOp'.ok
          /\ ~lastOp'.attempted
          /\ bound' = bound
          /\ parameter_index' = parameter_index ]_vars

C15_Witness ==
    /\ lastOp.op = "named"
    /\ lastOp.name = ":zz"
    /\ ~lastOp.ok
    /\ exec = "ready"
    /\ bound[1] = "v"
    /\ parameter_index = 2

C18_IteratorVisitsEachRowOnce ==
    /\ Len(derefLog) <= rowsTotal
    /\ \A k \in 1..Len(derefLog) : derefLog[k] = k
    /\ (itResult = "nullptr" => Len(derefLog) = rowsTotal)
    /\ (rowsTotal = 0 /\ itResult # "unborn" => itResult = "nullptr")

C18_Witness ==
    /\ itResult = "nullptr"
    /\ rowsTotal = MaxIterRows
    /\ Len(derefLog) = MaxIterRows

\* ------------------------------------------------------------------ SpecField

\* C19: converting a kept ResultField yields the value its column had in the
\* row that was current when the field was obtained, checked against that
\* row's type, also after the Result has been stepped to another row.
C19_FieldIsSnapshot ==
    lastOp.op = "convert" /\ curRow # <<>> =>
        /\ lastOp.tag = lastOp.snap.type
        /\ (lastOp.outcome = "value" =>
              lastOp.value = ColumnAs(lastOp.target, lastOp.snap))

\* C20: the strict-typing flag of a Result is the one execute_query was given,
\* also after the Result was move-constructed or move-assigned, and every
\* field made from it carries that flag.
C20_StrictFlagSurvivesMove ==
    /\ (lastOp.op # "none" => rStrict = strictChosen)
    /\ (fld # NoField => fld.strict_typing = strictChosen)

\* ------------------------------------------------------------------ SpecErr

C22_BackupInitChecked ==
    lastOp.op = "Backup" /\ ~lastOp.raised => backup # 0

\* C27: step(n) returns true exactly when pages_remaining() > 0 after it and
\* false exactly when pages_remaining() = 0, a negative n leaving nothing to
\* copy; after a step that copied, the count is the number of source pages
\* not yet copied, and when that step returns false the destination's
\* content equals the source's. A step after completion copies nothing and
\* returns false again.
C27_StepReportsRemaining ==
    lastOp.op = "backup_step" /\ lastOp.ret \in {"true", "false"} =>
        /\ lastOp.ret = "true" <=> pages_remaining > 0
        /\ lastOp.ret = "false" <=> pages_remaining = 0
        /\ lastOp.n < 0 => lastOp.ret = "false"
        /\ lastOp.copied => pages_remaining = Len(srcPages) + 1 - iNext
        /\ lastOp.ret = "false" /\ lastOp.copied => dstPages = srcPages
        /\ ~lastOp.copied => lastOp.ret = "false" /\ bkDone

\* A step with a negative page count completed the copy of a source that was
\* written to and grew while the backup was in progress.
C27_Witness ==
    /\ lastOp.op = "backup_step"
    /\ lastOp.n < 0
    /\ lastOp.ret = "false"
    /\ lastOp.copied
    /\ writes = MaxWrites
    /\ Len(srcPages) = MaxPages
    /\ page_count = MaxPages
    /\ dstPages = srcPages

\* ------------------------------------------------------------------ SpecTrack

\* C23: a prepare() that succeeds leaves the tracking list ending with the
\* entry of the new statement's cell and holding no entry whose Statement has
\* been destroyed; a prepare() that fails leaves the list as it was.
C23_PrepareTracksLiveStatements ==
    [][lastOp'.op = "prepare" =>
         IF lastOp'.ok
         THEN /\ stmt_ptrs' # <<>>
              /\ stmt_ptrs'[Len(stmt_ptrs')] = lastOp'.cell
              /\ stmtObj[lastOp'.cell] = "unborn"
              /\ \A i \in 1..Len(stmt_ptrs') : stmtObj'[stmt_ptrs'[i]] = "alive"
         ELSE stmt_ptrs' = stmt_ptrs]_vars

\* The second prepare() on a connection never closed succeeded after the
\* first Statement was destroyed: the list holds the second cell only.
C23_Witness ==
    /\ lastOp.op = "prepare"
    /\ lastOp.ok
    /\ lastOp.cell = 2
    /\ stmtObj[1] = "dead"
    /\ stmt_ptrs = <<2>>
    /\ db = 1
    /\ nativeDb[2] = "unopened"

\* C24: close() on a Connection that holds no handle (already closed, or
\* never opened) makes no engine call and changes nothing, and every close()
\* leaves the Connection without a handle, so a second close() does nothing.
C24_CloseIsIdempotent ==
    [][lastOp'.op = "close" =>
         /\ db' = 0
         /\ db = 0 => /\ lastOp'.calls = 0
                      /\ lastOp'.forced = {}
                      /\ UNCHANGED <<connVars, txnVars, halt>>]_vars

\* close() was called on the Connection whose handle an earlier close() had
\* closed while a statement prepared on it was still alive.
C24_Witness ==
    /\ lastOp.op = "close"
    /\ lastOp.had = 0
    /\ nativeDb[1] = "closed"
    /\ \E c \in Cells : stmtObj[c] = "alive" /\ stmtDb[c] = 1

\* ------------------------------------------------------------------ SpecConn (2)

\* C25: a call of finalize() (the destructor's included) invokes the
\* engine's finalize exactly when it is the first call on a live handle, made
\* on a Statement that is not moved-from; every other call makes no engine
\* call and returns true.
C25_FinalizeCallsEngineOnce ==
    [][lastOp'.op \in {"finalize", "destroy"} =>
         LET c == lastOp'.cell
             first == /\ c # 0
                      /\ ~movedFrom[c]
                      /\ cell[c] # 0
                      /\ nativeStmt[cell[c]] = "live"
                      /\ finalizeCalls[cell[c]] = 0
         IN  IF first
             THEN /\ lastOp'.engine
                  /\ finalizeCalls'[cell[c]] = 1
                  /\ nativeStmt'[cell[c]] = "finalized"
             ELSE /\ ~lastOp'.engine
                  /\ lastOp'.ret
                  /\ finalizeCalls' = finalizeCalls]_vars

\* ------------------------------------------------------------------ SpecRound

\* C26: for every host integer type T, on every platform, and every value v
\* of T bound in an insert, reading the stored column back as T yields v, the
\* minimum and maximum of T included; binding nullptr or an empty
\* optional<T> and reading back as optional<T> yields an empty optional.
C26_IntegerRoundTrip ==
    /\ lastOp.op = "round_trip" =>
         /\ lastOp.back.outcome = "value"
         /\ lastOp.back.value = lastOp.value
         /\ lastOp.stored.type = "INTEGER"
    /\ lastOp.op = "round_trip_null" => lastOp.back.outcome = "empty"

\* The maximum of unsigned long long, stored as the INTEGER -1, was read back
\* as the maximum of unsigned long long.
C26_Witness ==
    /\ lastOp.op = "round_trip"
    /\ lastOp.T = "unsigned long long"
    /\ lastOp.value = <<255, 255, 255, 255, 255, 255, 255, 255>>
    /\ lastOp.stored.bytes = lastOp.value
    /\ lastOp.back.value = lastOp.value

\* ------------------------------------------------------------------ SpecLifeResult, SpecLifeTxn, SpecLifeMove

\* C28: a Result never passes its statement handle to the engine after the
\* handle has been finalized, by Statement::finalize, by ~Statement or by
\* Connection::close.
C28_ResultNeverStepsFinalizedHandle ==
    /\ \A h \in Cells : <<"result_step", h>> \notin staleCalls
    /\ lastOp.op = "result_step" => lastOp.rc \in {"ROW", "DONE"}

\* C29: a Transaction never passes the connection handle to the engine after
\* the Connection has closed it: its commit(), begin(), rollback() and
\* destructor make no engine call on a closed handle.
C29_TransactionNeverUsesClosedHandle ==
    /\ staleDbCalls = {}
    /\ lastOp.op = "txn" /\ lastOp.engine => nativeDb[lastOp.handle] = "open"

\* C30: after a Connection is move-constructed or move-assigned, every live
\* Statement prepared on a native handle is tracked by the Connection that
\* holds that handle, and a close() of that Connection leaves no statement of
\* the handle live and the handle closed.
C30_OwnerTracksStatementsAfterMove ==
    /\ \A c \in Cells :
         stmtObj[c] = "alive" /\ cell[c] # 0 /\ nativeStmt[cell[c]] = "live" =>
            /\ db # 0 /\ stmtDb[cell[c]] = db =>
                 \E i \in 1..Len(stmt_ptrs) : stmt_ptrs[i] = c
            /\ otherDb # 0 /\ stmtDb[cell[c]] = otherDb =>
                 \E i \in 1..Len(otherPtrs) : otherPtrs[i] = c
    /\ lastOp.op \in {"close", "other_close"} /\ otherObj = "alive" /\ lastOp.had # 0 =>
         /\ \A h \in Cells : stmtDb[h] = lastOp.had => nativeStmt[h] # "live"
         /\ nativeDb[lastOp.had] = "closed"

\* ------------------------------------------------------------------ SpecOpen

\* C31: when open() fails, the partially opened handle is closed once and the
\* Connection holds no handle after the error is raised, so no later close()
\* or destruction passes the closed handle to sqlite3_close.
C31_FailedOpenLeavesNoHandle ==
    /\ lastOp.op = "open_fails" /\ lastOp.raised.type # "none" => db = 0
    /\ \A d \in DbHandles : <<"close", d>> \notin staleDbCalls

\* ------------------------------------------------------------------ SpecTxn, ownership

\* C33: the destructor of a Transaction whose own transaction has ended (by an
\* explicit rollback()) never rolls back the transaction another Transaction
\* or a directly executed BEGIN has opened on the connection since: destroying
\* an object that does not own the open transaction leaves it open and keeps
\* its rows.
C33_DtorRollsBackOnlyOwnTransaction ==
    [][\A t \in Txns :
          txnObj[t] = "alive" /\ txnObj'[t] = "dead" /\ owner # t
          => UNCHANGED <<autocommit, tbl, owner>>]_vars

\* C34: a begin() that fails leaves the committed flag as it was; begin() on a
\* Transaction whose transaction is still open raises, the open transaction
\* and its uncommitted rows remain, and the destruction of an uncommitted
\* Transaction while a transaction is open rolls the rows back.
C34_FailedBeginKeepsFlagAndTransaction ==
    [][\A t \in Txns :
          /\ lastOp'.op = "begin" /\ lastOp'.t = t /\ ~lastOp'.ok
             => /\ committed'[t] = committed[t]
                /\ UNCHANGED <<autocommit, tbl, snapshot, owner, batch>>
          /\ lastOp'.op = "begin" /\ lastOp'.t = t /\ owner = t /\ ~autocommit
             => ~lastOp'.ok
          /\ txnObj[t] = "alive" /\ txnObj'[t] = "dead" /\ ~committed[t] /\ ~autocommit
             => autocommit' /\ tbl' = snapshot]_vars

\* begin() was refused on a Transaction that is active and has uncommitted rows.
C34_Witness ==
    /\ lastOp.op = "begin"
    /\ ~lastOp.ok
    /\ ~lastOp.flagBefore
    /\ owner = lastOp.t
    /\ ~autocommit
    /\ batch[lastOp.t] # {}

\* ------------------------------------------------------------------ SpecResult, failed extraction

\* C35: a streaming extraction (>>) that raises a type error or a null-type
\* error under strict typing does not consume the field: the cursor still
\* designates the same column afterwards.
C35_FailedExtractionKeepsCursor ==
    lastOp.op = ">>" /\ lastOp.outcome \in {"TypeError", "NullTypeError"}
    => counter = lastOp.counterBefore

\* ------------------------------------------------------------------ SpecRound, unsigned values

\* C38: binding a value of unsigned int, unsigned long or unsigned long long
\* stores an engine integer numerically equal to the value, for every value
\* of the type, those above 2^63 - 1 included: the stored 64-bit INTEGER is
\* the zero extension of the value and is not negative.
C38_UnsignedStoredAsSameNumber ==
    lastOp.op = "round_trip"
    /\ lastOp.T \in {"unsigned int", "unsigned long", "unsigned long long"}
    => /\ lastOp.stored.type = "INTEGER"
       /\ lastOp.stored.bytes = static_cast(lastOp.value, FALSE, 8)
       /\ lastOp.stored.bytes[8] < 128

\* ------------------------------------------------------------------ SpecTxnMove

\* C32: after a Transaction is move-constructed only the moved-to object
\* carries the rollback obligation: destroying the moved-from object makes no
\* engine call, in particular none on a null handle.
C32_MovedFromDestroyCallsNothing ==
    /\ lastOp.op = "txn_husk_destroy" => ~lastOp.engine
    /\ <<"husk_destroy", 0>> \notin staleDbCalls

\* ------------------------------------------------------------------ SpecShare

\* C36 as stated: execute_query() neither steps nor resets the statement, and
\* of two Results obtained from one Statement with no reset() between, each
\* row is delivered to only one.
C36_EachRowToOneResult ==
    \A r1, r2 \in ShareResults :
        r1 # r2 => {p[2] : p \in shGot[r1]} \cap {p[2] : p \in shGot[r2]} = {}

\* C36: execute_query() neither steps nor resets the statement; a step() of
\* either Result continues from the statement's one execution position, so
\* within one execution of the statement each row is delivered to only one
\* of the two Results. (A step() after one that returned false makes the
\* engine execute the statement anew, and its rows are delivered again.)
C36_ResultsShareOneCursor ==
    [][/\ (\E r \in ShareResults : shRes'[r] # shRes[r])
          => UNCHANGED <<shRun, shPos, shGot>>
       /\ lastOp'.op = "share_step" /\ lastOp'.rc = "ROW" /\ shPos >= 0
          => lastOp'.row = shPos + 1 /\ shRun' = shRun
       /\ \A r1, r2 \in ShareResults : r1 # r2 => shGot'[r1] \cap shGot'[r2] = {}]_vars

\* In the first execution one Result was given row 1 and the other row 2.
C36_Witness ==
    \E r1, r2 \in ShareResults :
        /\ r1 # r2
        /\ <<1, 1>> \in shGot[r1]
        /\ <<1, 2>> \in shGot[r2]
        /\ lastOp.op = "share_step"

\* ------------------------------------------------------------------ SpecPostInc

\* C37: for a ResultIterator on row r, the iterator returned by it++
\* dereferences to row r, the row that was current before the increment.
C37_PostIncrementYieldsPreviousRow ==
    lastOp.op = "temp_deref" => lastOp.row = lastOp.copied

====
